---- MODULE Spec2Model ----
(***************************************************************************)
(* A model of rotate-backups 7.0 (src/rotate_backups/__init__.py and the   *)
(* rotation loop of src/rotate_backups/cli.py).                            *)
(*                                                                         *)
(* Directory entries and filename patterns are sequences of one-character  *)
(* strings, a timestamp is the tuple <<year, month, day, hour, minute,     *)
(* second>> that datetime.datetime holds, a Backup is a record with the    *)
(* fields pathname and timestamp.  A Python dict is a TLA+ function, a     *)
(* Python list a sequence.                                                 *)
(***************************************************************************)
EXTENDS Integers, Sequences, FiniteSets, TLC

\* ------------------------------------------------------------------------
\* Bounds of the model (not program constants).
\* ------------------------------------------------------------------------

\* The largest number of entries a location holds in an initial state.
MaxEntries == 3

\* The largest integer retention count of a rotation scheme.
MaxCount == 2

\* ------------------------------------------------------------------------
\* Characters and strings.
\* ------------------------------------------------------------------------

Digits == {"0", "1", "2", "3", "4", "5", "6", "7", "8", "9"}

\* int(c, 10) of a one-character string.
DigitValue(c) ==
    CASE c = "0" -> 0 [] c = "1" -> 1 [] c = "2" -> 2 [] c = "3" -> 3
      [] c = "4" -> 4 [] c = "5" -> 5 [] c = "6" -> 6 [] c = "7" -> 7
      [] c = "8" -> 8 [] c = "9" -> 9

\* The code point of a character (the order Python compares strings by).
CharCode(c) ==
    CASE c \in Digits -> 48 + DigitValue(c)
      [] c = "*" -> 42 [] c = "-" -> 45 [] c = "/" -> 47 [] c = "?" -> 63
      [] c = "d" -> 100 [] c = "e" -> 101 [] c = "i" -> 105
      [] c = "n" -> 110 [] c = "x" -> 120

\* s < t for two Python strings.
RECURSIVE StrLess(_, _)
StrLess(s, t) ==
    IF t = <<>> THEN FALSE
    ELSE IF s = <<>> THEN TRUE
    ELSE IF Head(s) = Head(t) THEN StrLess(Tail(s), Tail(t))
    ELSE CharCode(Head(s)) < CharCode(Head(t))

\* a < b for two tuples of integers of any lengths (Python's tuple order).
RECURSIVE TupleLess(_, _)
TupleLess(a, b) ==
    IF b = <<>> THEN FALSE
    ELSE IF a = <<>> THEN TRUE
    ELSE IF Head(a) = Head(b) THEN TupleLess(Tail(a), Tail(b))
    ELSE Head(a) < Head(b)

\* seq[start:] with Python's treatment of a negative or too large start.
PySliceFrom(seq, start) ==
    LET n == Len(seq)
        from == IF start < 0
                THEN (IF n + start < 0 THEN 0 ELSE n + start)
                ELSE (IF start > n THEN n ELSE start)
    IN  SubSeq(seq, from + 1, n)

\* fnmatch.fnmatch(name, pat) for patterns of literals, "?" and "*".
RECURSIVE Fnmatch(_, _)
Fnmatch(name, pat) ==
    IF pat = <<>> THEN name = <<>>
    ELSE IF Head(pat) = "*"
         THEN \/ Fnmatch(name, Tail(pat))
              \/ name # <<>> /\ Fnmatch(Tail(name), pat)
    ELSE /\ name # <<>>
         /\ Head(pat) = "?" \/ Head(pat) = Head(name)
         /\ Fnmatch(Tail(name), Tail(pat))

\* ------------------------------------------------------------------------
\* The calendar (datetime.datetime and dateutil.relativedelta).
\* ------------------------------------------------------------------------

IsLeap(y) == y % 4 = 0 /\ (y % 100 # 0 \/ y % 400 = 0)

DaysInMonth(y, m) ==
    IF m = 2 THEN (IF IsLeap(y) THEN 29 ELSE 28)
    ELSE IF m \in {4, 6, 9, 11} THEN 30 ELSE 31

RECURSIVE DaysBeforeMonth(_, _)
DaysBeforeMonth(y, m) ==
    IF m = 1 THEN 0 ELSE DaysBeforeMonth(y, m - 1) + DaysInMonth(y, m - 1)

DaysBeforeYear(y) ==
    (y - 1) * 365 + ((y - 1) \div 4) - ((y - 1) \div 100) + ((y - 1) \div 400)

\* date.toordinal(): 1 for 0001-01-01.
Ordinal(y, m, d) == DaysBeforeYear(y) + DaysBeforeMonth(y, m) + d

\* The ordinal of the Monday that starts ISO week 1 of year y.
IsoWeek1Monday(y) ==
    LET firstday == Ordinal(y, 1, 1)
        firstweekday == (firstday + 6) % 7
        week1monday == firstday - firstweekday
    IN  IF firstweekday > 3 THEN week1monday + 7 ELSE week1monday

\* The arguments datetime.datetime() accepts; anything else is a ValueError.
ValidDate(f) ==
    /\ f[1] \in 1..9999
    /\ f[2] \in 1..12
    /\ f[3] \in 1..DaysInMonth(f[1], f[2])
    /\ f[4] \in 0..23
    /\ f[5] \in 0..59
    /\ f[6] \in 0..59

\* The minutes from 0001-01-01 00:00 to the minute of a timestamp.
Minutes(ts) == ((Ordinal(ts[1], ts[2], ts[3]) - 1) * 24 + ts[4]) * 60 + ts[5]

\* a < b for two datetimes.
TimestampLess(a, b) == TupleLess(a, b)

\* ------------------------------------------------------------------------
\* Timestamps in filenames.
\* ------------------------------------------------------------------------

NoMatch == <<>>

DigitsAt(s, i, n) == \A k \in 0..(n - 1) : i + k <= Len(s) /\ s[i + k] \in Digits

\* The position after an optional non-digit (\D?) at position i.
SkipNonDigit(s, i) == IF i <= Len(s) /\ s[i] \notin Digits THEN i + 1 ELSE i

RECURSIVE Number(_, _, _)
Number(s, i, n) ==
    IF n = 0 THEN 0 ELSE Number(s, i, n - 1) * 10 + DigitValue(s[i + n - 1])

\* TIMESTAMP_PATTERN matched at position i of s: the six groups (a missing
\* group is 0, as match.groups('0') and int() give) or NoMatch.
TimestampMatchAt(s, i) ==
    LET month_at == SkipNonDigit(s, i + 4)
        day_at == SkipNonDigit(s, month_at + 2)
        hour_at == SkipNonDigit(s, day_at + 2)
        minute_at == SkipNonDigit(s, hour_at + 2)
        second_at == SkipNonDigit(s, minute_at + 2)
        have_time == DigitsAt(s, hour_at, 2) /\ DigitsAt(s, minute_at, 2)
    IN  IF ~(DigitsAt(s, i, 4) /\ DigitsAt(s, month_at, 2) /\ DigitsAt(s, day_at, 2))
        THEN NoMatch
        ELSE << Number(s, i, 4), Number(s, month_at, 2), Number(s, day_at, 2),
                IF have_time THEN Number(s, hour_at, 2) ELSE 0,
                IF have_time THEN Number(s, minute_at, 2) ELSE 0,
                IF have_time /\ DigitsAt(s, second_at, 2)
                THEN Number(s, second_at, 2) ELSE 0 >>

\* A search that goes on to the leftmost match whose groups are a date.
TimestampFirstValid(entry) ==
    LET starts == {i \in 1..Len(entry) :
                      /\ TimestampMatchAt(entry, i) # NoMatch
                      /\ ValidDate(TimestampMatchAt(entry, i))}
    IN  IF starts = {} THEN NoMatch
        ELSE TimestampMatchAt(entry, CHOOSE i \in starts : \A j \in starts : i <= j)

\* TIMESTAMP_PATTERN.search(entry): the match at the leftmost position.
TIMESTAMP_PATTERN(entry) ==
    LET starts == {i \in 1..Len(entry) : TimestampMatchAt(entry, i) # NoMatch}
    IN  IF starts = {} THEN NoMatch
        ELSE TimestampMatchAt(entry, CHOOSE i \in starts : \A j \in starts : i <= j)

\* ------------------------------------------------------------------------
\* Backup objects.
\* ------------------------------------------------------------------------

\* os.path.join(directory, entry)
PathJoin(directory, entry) == directory \o <<"/">> \o entry

Backup(pathname, timestamp) == [pathname |-> pathname, timestamp |-> timestamp]

\* Backup.week: timestamp.isocalendar()[1].
week(b) ==
    LET year == b.timestamp[1]
        today == Ordinal(year, b.timestamp[2], b.timestamp[3])
        w == (today - IsoWeek1Monday(year)) \div 7
    IN  IF today < IsoWeek1Monday(year)
        THEN ((today - IsoWeek1Monday(year - 1)) \div 7) + 1
        ELSE IF w >= 52 /\ today >= IsoWeek1Monday(year + 1) THEN 1
        ELSE w + 1

\* a < b for two Backup objects: key_properties = timestamp, pathname.
BackupLess(a, b) ==
    \/ TimestampLess(a.timestamp, b.timestamp)
    \/ a.timestamp = b.timestamp /\ StrLess(a.pathname, b.pathname)

\* sorted() of a set of Backup objects.
RECURSIVE SortedBackups(_)
SortedBackups(S) ==
    IF S = {} THEN <<>>
    ELSE LET first == CHOOSE a \in S : \A b \in S \ {a} : BackupLess(a, b)
         IN  <<first>> \o SortedBackups(S \ {first})

\* The elements of a sequence.
Range(seq) == {seq[i] : i \in 1..Len(seq)}

\* ------------------------------------------------------------------------
\* Rotation frequencies.
\* ------------------------------------------------------------------------

ORDERED_FREQUENCIES == <<"minutely", "hourly", "daily", "weekly", "monthly", "yearly">>

SUPPORTED_FREQUENCIES == Range(ORDERED_FREQUENCIES)

\* A retention period is 'always' or a number.
Always == <<"always">>

Count(n) == <<"number", n>>

\* The number n + 1/2, as coerce_retention_period() returns it for an
\* expression like '3 / 2' or '2.5'.
Fraction(n) == <<"fraction", n>>

\* sorted(backups.items())[-retention_period:] raises TypeError: the index
\* of a slice is an integer.
SliceRaises(retention_period) == retention_period[1] = "fraction"

\* datetime - SUPPORTED_FREQUENCIES[frequency] * n, as <<minutes, second>>:
\* relativedelta moves the year and month first (clamping the day to the
\* length of the month it lands in) and then the days, hours and minutes.
MinimumDate(most_recent_backup, frequency, n) ==
    LET ts == most_recent_backup
        months == IF frequency = "monthly" THEN n
                  ELSE IF frequency = "yearly" THEN 12 * n ELSE 0
        minutes == IF frequency = "minutely" THEN n
                   ELSE IF frequency = "hourly" THEN 60 * n
                   ELSE IF frequency = "daily" THEN 1440 * n
                   ELSE IF frequency = "weekly" THEN 10080 * n ELSE 0
        total == ts[1] * 12 + (ts[2] - 1) - months
        year == total \div 12
        month == (total % 12) + 1
        day == IF ts[3] > DaysInMonth(year, month)
               THEN DaysInMonth(year, month) ELSE ts[3]
    IN  << Minutes(<<year, month, day, ts[4], ts[5], ts[6]>>) - minutes, ts[6] >>

\* A comparison that also removes the backup of the minimum date itself.
NotAfterMinimumDate(b, minimum_date) ==
    ~TupleLess(minimum_date, <<Minutes(b.timestamp), b.timestamp[6]>>)

\* backup.timestamp < minimum_date
BeforeMinimumDate(b, minimum_date) ==
    TupleLess(<<Minutes(b.timestamp), b.timestamp[6]>>, minimum_date)

\* ------------------------------------------------------------------------
\* The rotation algorithm (methods of RotateBackups as operators).
\* ------------------------------------------------------------------------

\* The key of the time slot of backup b in a frequency (group_backups).
PeriodKey(frequency, b) ==
    LET t == b.timestamp
    IN  CASE frequency = "minutely" -> <<t[1], t[2], t[3], t[4], t[5]>>
          [] frequency = "hourly" -> <<t[1], t[2], t[3], t[4]>>
          [] frequency = "daily" -> <<t[1], t[2], t[3]>>
          [] frequency = "weekly" -> <<t[1], week(b)>>
          [] frequency = "monthly" -> <<t[1], t[2]>>
          [] frequency = "yearly" -> <<t[1]>>

\* RotateBackups.group_backups(backups): per frequency a dict from period
\* keys to the list of the backups of the period, in the order of backups.
GroupBackupsOf(backups) ==
    [frequency \in SUPPORTED_FREQUENCIES |->
        [period \in {PeriodKey(frequency, backups[i]) : i \in 1..Len(backups)} |->
            SelectSeq(backups, LAMBDA b : PeriodKey(frequency, b) = period)]]

\* A selection that takes index 0 whatever prefer_recent says.
SelectedBackupOldest(backups_in_period, prefer) ==
    SortedBackups(Range(backups_in_period))[1]

\* sorted(backups_in_period)[index] with index = -1 if prefer_recent else 0.
SelectedBackup(backups_in_period, prefer) ==
    LET ordered == SortedBackups(Range(backups_in_period))
    IN  IF prefer THEN ordered[Len(ordered)] ELSE ordered[1]

\* sorted() of the keys of a dict of periods.
RECURSIVE SortedPeriods(_)
SortedPeriods(S) ==
    IF S = {} THEN <<>>
    ELSE LET first == CHOOSE a \in S : \A b \in S \ {a} : TupleLess(a, b)
         IN  <<first>> \o SortedPeriods(S \ {first})

\* sorted(backups.items())[-retention_period:] as the periods it keeps.
ItemsToPreserve(backups, retention_period) ==
    Range(PySliceFrom(SortedPeriods(DOMAIN backups), 0 - retention_period))

\* An apply_rotation_scheme() that enforces the time window without strict.
EnforcesWindowAlways(is_strict) == TRUE

\* if self.strict:
EnforcesWindow(is_strict) == is_strict

\* An apply_rotation_scheme() that leaves the buckets of a frequency that
\* is not in the scheme as group_backups() made them.
ClearedNot(backups) == backups

\* backups.clear(): the dict of a frequency that is not in the scheme.
Cleared(backups) == <<>>

\* The body of the loop of apply_rotation_scheme for one frequency.
ApplyFrequency(frequency, backups, most_recent_backup, scheme, is_strict, prefer) ==
    IF frequency \notin DOMAIN scheme THEN Cleared(backups)
    ELSE LET reduced == [period \in DOMAIN backups |->
                            <<SelectedBackup(backups[period], prefer)>>]
             retention_period == scheme[frequency]
         IN  IF retention_period = Always THEN reduced
             ELSE LET minimum_date ==
                          MinimumDate(most_recent_backup, frequency, retention_period[2])
                      remaining ==
                          IF EnforcesWindow(is_strict)
                          THEN {period \in DOMAIN reduced :
                                   ~BeforeMinimumDate(reduced[period][1], minimum_date)}
                          ELSE DOMAIN reduced
                      in_window == [period \in remaining |-> reduced[period]]
                      kept == ItemsToPreserve(in_window, retention_period[2])
                  IN  [period \in kept |-> in_window[period]]

\* RotateBackups.apply_rotation_scheme() past the check of the empty scheme.
ApplyRotationSchemeOf(by_frequency, most_recent_backup, scheme, is_strict, prefer) ==
    [frequency \in SUPPORTED_FREQUENCIES |->
        ApplyFrequency(frequency, by_frequency[frequency], most_recent_backup,
                       scheme, is_strict, prefer)]

\* A find_preservation_criteria() that stops after the first frequency, in
\* the order of ORDERED_FREQUENCIES, that preserves a backup.
FindPreservationCriteriaOfFirst(by_frequency) ==
    LET holding == {i \in 1..Len(ORDERED_FREQUENCIES) :
                       DOMAIN by_frequency[ORDERED_FREQUENCIES[i]] # {}}
        first == ORDERED_FREQUENCIES[CHOOSE i \in holding : \A j \in holding : i <= j]
        preserved == UNION {Range(by_frequency[first][period]) :
                               period \in DOMAIN by_frequency[first]}
    IN  IF holding = {} THEN <<>> ELSE [b \in preserved |-> <<first>>]

\* The buckets of a frequency of the scheme when the loop of
\* apply_rotation_scheme() reaches the slice of its retention period:
\* reduced to their representatives and, with strict, without the ones
\* before the minimum date (a relativedelta times a number keeps the
\* integer part of the product).
BeforeSlice(frequency, backups, most_recent_backup, scheme, is_strict, prefer) ==
    LET reduced == [period \in DOMAIN backups |->
                       <<SelectedBackup(backups[period], prefer)>>]
        minimum_date == MinimumDate(most_recent_backup, frequency, scheme[frequency][2])
        remaining == IF EnforcesWindow(is_strict)
                     THEN {period \in DOMAIN reduced :
                              ~BeforeMinimumDate(reduced[period][1], minimum_date)}
                     ELSE DOMAIN reduced
    IN  [period \in remaining |-> reduced[period]]

\* The frequencies of the scheme whose slice raises.
RaisingFrequencies(scheme) ==
    {i \in 1..Len(ORDERED_FREQUENCIES) :
        /\ ORDERED_FREQUENCIES[i] \in DOMAIN scheme
        /\ SliceRaises(scheme[ORDERED_FREQUENCIES[i]])}

\* backups_by_frequency when apply_rotation_scheme() is left by the
\* TypeError of a slice: the frequencies before the raising one have been
\* dealt with, the raising one is as it was before its slice, the ones
\* after it are as group_backups() returned them.
PartlyApplied(by_frequency, most_recent_backup, scheme, is_strict, prefer) ==
    LET raising == CHOOSE i \in RaisingFrequencies(scheme) :
                      \A j \in RaisingFrequencies(scheme) : i <= j
        Index(frequency) == CHOOSE i \in 1..Len(ORDERED_FREQUENCIES) :
                               ORDERED_FREQUENCIES[i] = frequency
    IN  [frequency \in SUPPORTED_FREQUENCIES |->
            IF Index(frequency) < raising
            THEN ApplyFrequency(frequency, by_frequency[frequency], most_recent_backup,
                                scheme, is_strict, prefer)
            ELSE IF Index(frequency) = raising
            THEN BeforeSlice(frequency, by_frequency[frequency], most_recent_backup,
                             scheme, is_strict, prefer)
            ELSE by_frequency[frequency]]

\* A find_preservation_criteria() that goes through the frequencies in the
\* order of their names.
FrequenciesByName == <<"daily", "hourly", "minutely", "monthly", "weekly", "yearly">>

\* for frequency, delta in ORDERED_FREQUENCIES:
FrequenciesInOrder == ORDERED_FREQUENCIES

\* The number of times the loops over the periods of a frequency and over
\* the backups of a period come to a backup.
TimesAppended(by_frequency, frequency, b) ==
    LET periods == by_frequency[frequency]
        places == UNION {{<<period, i>> : i \in 1..Len(periods[period])} :
                            period \in DOMAIN periods}
    IN  Cardinality({place \in places : periods[place[1]][place[2]] = b})

\* backups_to_preserve[backup] after the frequencies from the i-th on:
\* every time the loops come to the backup the frequency is appended.
RECURSIVE ReasonsFrom(_, _, _)
ReasonsFrom(by_frequency, b, i) ==
    IF i > Len(FrequenciesInOrder) THEN <<>>
    ELSE [k \in 1..TimesAppended(by_frequency, FrequenciesInOrder[i], b) |->
             FrequenciesInOrder[i]]
         \o ReasonsFrom(by_frequency, b, i + 1)

\* RotateBackups.find_preservation_criteria(backups_by_frequency).
FindPreservationCriteriaOf(by_frequency) ==
    LET Periods(frequency) == by_frequency[frequency]
        preserved == UNION {UNION {Range(Periods(frequency)[period]) :
                                      period \in DOMAIN Periods(frequency)} :
                               frequency \in SUPPORTED_FREQUENCIES}
    IN  [b \in preserved |-> ReasonsFrom(by_frequency, b, 1)]

\* ------------------------------------------------------------------------
\* Commands and the file system.
\* ------------------------------------------------------------------------

DEFAULT_REMOVAL_COMMAND == << <<"r", "m">>, <<"-", "f", "R">> >>

\* A removal command other than the default one; it removes nothing.
CustomRemovalCommand == << <<"e", "c", "h", "o">> >>

\* CommandPool(concurrency=10)
PoolConcurrency == 10

\* os.path.dirname() and os.path.basename() of a pathname.
LastSlash(pathname) ==
    CHOOSE i \in 1..Len(pathname) :
        pathname[i] = "/" /\ \A j \in (i + 1)..Len(pathname) : pathname[j] # "/"

DirName(pathname) == SubSeq(pathname, 1, LastSlash(pathname) - 1)

BaseName(pathname) == SubSeq(pathname, LastSlash(pathname) + 1, Len(pathname))

\* The pathname a removal command is given: its final argument.
Target(command) == command.command[Len(command.command)]

\* location.context.prepare(command=removal_command + [pathname],
\*                          group_by=(ssh_alias, mount_point), ...)
PrepareCommand(removal, pathname, mount) ==
    [command |-> Append(removal, pathname), group_by |-> <<"None", mount>>]

\* Whether running the command fails (ExternalCommandFailed): rm -fR fails
\* on an existing entry of a directory that is not writable.
CommandFails(command, entries, perms) ==
    LET pathname == Target(command)
    IN  /\ SubSeq(command.command, 1, Len(command.command) - 1) = DEFAULT_REMOVAL_COMMAND
        /\ BaseName(pathname) \in entries[DirName(pathname)]
        /\ ~perms[DirName(pathname)].writable

\* The entries of the directories after the command ran successfully.
AfterCommand(command, entries) ==
    LET pathname == Target(command)
    IN  IF SubSeq(command.command, 1, Len(command.command) - 1) = DEFAULT_REMOVAL_COMMAND
        THEN [entries EXCEPT ![DirName(pathname)] = @ \ {BaseName(pathname)}]
        ELSE entries

\* ------------------------------------------------------------------------
\* The inputs of the model.
\* ------------------------------------------------------------------------

D1 == <<"d">>

D2 == <<"e">>

Directories == {D1, D2}

\* 2018-12-24 15:00, a Monday in ISO week 52 of 2018.
Entry24at1500 == <<"2", "0", "1", "8", "1", "2", "2", "4", "1", "5", "0", "0">>

\* 2018-12-31, a Monday in ISO week 1 of 2019, at 14:50, 16:15 and 16:45.
Entry31at1450 == <<"2", "0", "1", "8", "1", "2", "3", "1", "1", "4", "5", "0">>

Entry31at1615 == <<"2", "0", "1", "8", "1", "2", "3", "1", "1", "6", "1", "5">>

Entry31at1645 == <<"2", "0", "1", "8", "1", "2", "3", "1", "1", "6", "4", "5">>

\* A second entry with the timestamp 2018-12-31 16:45.
EntryXat1645 == <<"x">> \o Entry31at1645

\* 2019-01-01 without a time.
Entry2019 == <<"2", "0", "1", "9", "-", "0", "1", "-", "0", "1">>

\* Month 13: the pattern matches, datetime() raises ValueError.
EntryInvalidDate == <<"2", "0", "1", "8", "1", "3", "0", "1">>

\* No timestamp.
EntryNoTimestamp == <<"i", "n", "i">>

TimestampedEntries ==
    {Entry24at1500, Entry31at1450, Entry31at1615, Entry31at1645, EntryXat1645, Entry2019}

AllEntries == TimestampedEntries \cup {EntryInvalidDate, EntryNoTimestamp}

\* TIMESTAMP_PATTERN.search() of every entry of the model.
SearchResults == [entry \in AllEntries |-> TIMESTAMP_PATTERN(entry)]

\* match = TIMESTAMP_PATTERN.search(entry)
Search(entry) ==
    IF entry \in AllEntries THEN SearchResults[entry] ELSE TIMESTAMP_PATTERN(entry)

\* --include=2018*
IncludePattern == <<"2", "0", "1", "8", "*">>

\* --exclude=*1645
ExcludePattern == <<"*", "1", "6", "4", "5">>

SmallSubsets(S) == {T \in SUBSET S : Cardinality(T) <= MaxEntries}

RetentionPeriods == {Always} \cup {Count(n) : n \in 0..MaxCount}

OneFrequencySchemes ==
    {[g \in {frequency} |-> period] :
        frequency \in SUPPORTED_FREQUENCIES, period \in RetentionPeriods}

TwoFrequencySchemes ==
    {[g \in {pair[1], pair[2]} |-> IF g = pair[1] THEN first ELSE second] :
        pair \in {<<"hourly", "daily">>, <<"weekly", "monthly">>},
        first \in RetentionPeriods, second \in {Count(1), Always}}

EmptyScheme == <<>>

Schemes == {EmptyScheme} \cup OneFrequencySchemes \cup TwoFrequencySchemes

AllAccess == [directory \in Directories |->
                 [exists |-> TRUE, readable |-> TRUE, writable |-> TRUE]]

Accesses == { [exists |-> TRUE, readable |-> TRUE, writable |-> TRUE],
              [exists |-> TRUE, readable |-> TRUE, writable |-> FALSE],
              [exists |-> TRUE, readable |-> FALSE, writable |-> FALSE],
              [exists |-> FALSE, readable |-> FALSE, writable |-> FALSE] }

\* A section of the configuration file: load_config_file() yields its
\* location, rotation scheme and options (an option left out is falsy).
Section(directory, scheme, includes, excludes, is_strict, prefer, removal) ==
    [directory |-> directory, rotation_scheme |-> scheme,
     options |-> [include_list |-> includes, exclude_list |-> excludes,
                  strict |-> is_strict, prefer_recent |-> prefer,
                  removal_command |-> removal]]

ConfigFiles ==
    { <<Section(D1, [g \in {"daily"} |-> Count(1)], <<>>, <<>>, TRUE, FALSE, <<>>)>>,
      <<Section(<<"*">>, EmptyScheme, <<IncludePattern>>, <<>>, TRUE, TRUE, <<>>)>>,
      <<Section(D2, [g \in {"hourly"} |-> Always], <<>>, <<ExcludePattern>>, FALSE, FALSE,
                CustomRemovalCommand)>> }

\* ------------------------------------------------------------------------
\* The state.
\* ------------------------------------------------------------------------

VARIABLES
    \* The properties of the RotateBackups object.
    rotation_scheme, strict, prefer_recent, dry_run, force,
    include_list, exclude_list, removal_command,
    \* The sections of the configuration file (config_file).
    config,
    \* cli.main(): the --parallel option and the selected locations.
    parallel, selected_locations,
    \* The rotation scheme and the options main() constructed the
    \* RotateBackups object with.
    given,
    \* The file system: the entries of each directory, what the sanity
    \* checks find for it, and its mount point.
    listing, permissions, mount_point,
    \* Where the program is, the number of the location being rotated.
    pc, current,
    \* The local variables of rotate_backups().
    location, sorted_backups, most_recent_backup, backups_by_frequency,
    backups_to_preserve, rotation_commands, position,
    \* The "Preserving" and "Deleting" messages of the current call.
    log,
    \* The CommandPool of rotate_concurrent(): the commands added, the
    \* numbers of the running and of the finished ones.
    pool, running, finished,
    \* Every command started so far, in the order of their start.
    started,
    \* The exception that ended the program ("None" while there is none).
    raised

properties == <<rotation_scheme, strict, prefer_recent, dry_run, force,
                include_list, exclude_list, removal_command>>

environment == <<config, parallel, selected_locations, given, permissions, mount_point>>

locals == <<location, sorted_backups, most_recent_backup, backups_by_frequency,
            backups_to_preserve, rotation_commands, position, log>>

pooled == <<pool, running, finished>>

vars == <<properties, environment, listing, pc, current, locals, pooled, started, raised>>

NoTimestamp == <<>>

\* The registers of a call of rotate_backups() that has not assigned them.
FreshLocals ==
    /\ sorted_backups' = <<>>
    /\ most_recent_backup' = NoTimestamp
    /\ backups_by_frequency' = <<>>
    /\ backups_to_preserve' = <<>>
    /\ rotation_commands' = <<>>
    /\ position' = 0
    /\ log' = <<>>

\* What every initial state has in common: the program is about to rotate
\* the first selected location.
Start ==
    /\ pc = "main"
    /\ current = 1
    /\ location = <<>>
    /\ sorted_backups = <<>>
    /\ most_recent_backup = NoTimestamp
    /\ backups_by_frequency = <<>>
    /\ backups_to_preserve = <<>>
    /\ rotation_commands = <<>>
    /\ position = 0
    /\ log = <<>>
    /\ pool = <<>>
    /\ running = {}
    /\ finished = {}
    /\ started = <<>>
    /\ raised = "None"

\* rotate-backups [--relaxed] [--prefer-recent] [--dry-run] SCHEME d d
\* (the directory is rotated, and then rotated again).
InitRotation ==
    /\ rotation_scheme \in Schemes
    /\ strict \in BOOLEAN
    /\ prefer_recent \in BOOLEAN
    /\ dry_run \in BOOLEAN
    /\ force = FALSE
    /\ include_list = <<>>
    /\ exclude_list = <<>>
    /\ removal_command = DEFAULT_REMOVAL_COMMAND
    /\ config = <<>>
    /\ parallel = FALSE
    /\ selected_locations = <<D1, D1>>
    /\ listing \in {[directory \in Directories |-> IF directory = D1 THEN entries ELSE {}] :
                       entries \in SmallSubsets(TimestampedEntries)}
    /\ permissions = AllAccess
    /\ mount_point = [directory \in Directories |-> "/"]

\* rotate-backups --include=... --exclude=... --hourly=1 [--daily=always] d
InitFilters ==
    /\ rotation_scheme \in {[g \in {"hourly"} |-> Count(1)],
                            [g \in {"hourly", "daily"} |->
                                IF g = "hourly" THEN Count(1) ELSE Always]}
    /\ strict = TRUE
    /\ prefer_recent = FALSE
    /\ dry_run = FALSE
    /\ force = FALSE
    /\ include_list \in {<<>>, <<IncludePattern>>}
    /\ exclude_list \in {<<>>, <<ExcludePattern>>}
    /\ removal_command = DEFAULT_REMOVAL_COMMAND
    /\ config = <<>>
    /\ parallel = FALSE
    /\ selected_locations = <<D1>>
    /\ listing \in {[directory \in Directories |-> IF directory = D1 THEN entries ELSE {}] :
                       entries \in SmallSubsets(AllEntries)}
    /\ permissions = AllAccess
    /\ mount_point = [directory \in Directories |-> "/"]

\* Locations that fail a sanity check, with and without --force and
\* --removal-command.
InitSanity ==
    /\ rotation_scheme \in {EmptyScheme, [g \in {"hourly"} |-> Count(1)]}
    /\ strict = TRUE
    /\ prefer_recent = FALSE
    /\ dry_run \in BOOLEAN
    /\ force \in BOOLEAN
    /\ include_list = <<>>
    /\ exclude_list = <<>>
    /\ removal_command \in {DEFAULT_REMOVAL_COMMAND, CustomRemovalCommand}
    /\ config = <<>>
    /\ parallel \in BOOLEAN
    /\ selected_locations = <<D1>>
    /\ listing \in {[directory \in Directories |-> IF directory = D1 THEN entries ELSE {}] :
                       entries \in {{Entry31at1615, Entry31at1645}, {EntryNoTimestamp}}}
    /\ permissions \in {[directory \in Directories |-> access] : access \in Accesses}
    /\ mount_point = [directory \in Directories |-> "/"]

\* rotate-backups --parallel [--dry-run] SCHEME LOCATION LOCATION
InitConcurrent ==
    /\ rotation_scheme \in {EmptyScheme, [g \in {"hourly"} |-> Count(1)],
                            [g \in {"daily"} |-> Always]}
    /\ strict = TRUE
    /\ prefer_recent \in BOOLEAN
    /\ dry_run \in BOOLEAN
    /\ force = FALSE
    /\ include_list = <<>>
    /\ exclude_list = <<>>
    /\ removal_command = DEFAULT_REMOVAL_COMMAND
    /\ config = <<>>
    /\ parallel = TRUE
    /\ selected_locations \in {<<D1, D2>>, <<D2, D1>>, <<D1, D1>>}
    /\ listing \in {[directory \in Directories |-> IF directory = D1 THEN first ELSE second] :
                       first \in {{Entry31at1450, Entry31at1615, Entry31at1645},
                                  {Entry31at1615, EntryXat1645}},
                       second \in {{}, {Entry31at1615, Entry31at1645}, {Entry2019}}}
    /\ permissions = AllAccess
    /\ mount_point \in {[directory \in Directories |-> "/"],
                        [directory \in Directories |->
                            IF directory = D1 THEN "/" ELSE "/mnt"]}

\* rotate-backups [--relaxed] --hourly='1 / 2' [--minutely=1] [--daily=1] d
InitFraction ==
    /\ rotation_scheme \in
          {[g \in {"hourly"} |-> Fraction(n)] : n \in 0..MaxCount - 1} \cup
          {[g \in {"minutely", "hourly", "daily"} |->
               IF g = "hourly" THEN Fraction(1) ELSE Count(1)]}
    /\ strict \in BOOLEAN
    /\ prefer_recent \in BOOLEAN
    /\ dry_run = FALSE
    /\ force = FALSE
    /\ include_list = <<>>
    /\ exclude_list = <<>>
    /\ removal_command = DEFAULT_REMOVAL_COMMAND
    /\ config = <<>>
    /\ parallel = FALSE
    /\ selected_locations = <<D1>>
    /\ listing \in {[directory \in Directories |-> IF directory = D1 THEN entries ELSE {}] :
                       entries \in {{Entry31at1450, Entry31at1615, Entry31at1645},
                                    {Entry24at1500, Entry31at1645, EntryXat1645}}}
    /\ permissions = AllAccess
    /\ mount_point = [directory \in Directories |-> "/"]

\* 2018-12-31 at 14:40 and at 14:45, two hours and two hours and five
\* minutes before 16:45.
Entry31at1440 == <<"2", "0", "1", "8", "1", "2", "3", "1", "1", "4", "4", "0">>

Entry31at1445 == <<"2", "0", "1", "8", "1", "2", "3", "1", "1", "4", "4", "5">>

\* rotate-backups [--prefer-recent] --dry-run --FREQUENCY=N d with backups
\* around the minimum date of an hourly count of two.
InitStrict ==
    /\ rotation_scheme \in {[g \in {frequency} |-> Count(n)] :
                                frequency \in SUPPORTED_FREQUENCIES, n \in 0..MaxCount}
    /\ strict = TRUE
    /\ prefer_recent \in BOOLEAN
    /\ dry_run = TRUE
    /\ force = FALSE
    /\ include_list = <<>>
    /\ exclude_list = <<>>
    /\ removal_command = DEFAULT_REMOVAL_COMMAND
    /\ config = <<>>
    /\ parallel = FALSE
    /\ selected_locations = <<D1>>
    /\ listing \in {[directory \in Directories |-> IF directory = D1 THEN entries ELSE {}] :
                       entries \in {{Entry31at1440, Entry31at1450, Entry31at1645},
                                    {Entry31at1445, Entry31at1450, Entry31at1645},
                                    {Entry31at1445, Entry31at1615, EntryXat1645}}}
    /\ permissions = AllAccess
    /\ mount_point = [directory \in Directories |-> "/"]

\* 2018-01-01, a Monday in ISO week 1 of 2018.
Entry1January == <<"2", "0", "1", "8", "0", "1", "0", "1">>

\* rotate-backups --dry-run [--relaxed] [--prefer-recent] --FREQUENCY=N d
\* for a directory with backups a year and a week apart.
InitYear ==
    /\ rotation_scheme \in {[g \in {frequency} |-> Count(n)] :
                                frequency \in SUPPORTED_FREQUENCIES, n \in 1..MaxCount}
    /\ strict \in BOOLEAN
    /\ prefer_recent \in BOOLEAN
    /\ dry_run = TRUE
    /\ force = FALSE
    /\ include_list = <<>>
    /\ exclude_list = <<>>
    /\ removal_command = DEFAULT_REMOVAL_COMMAND
    /\ config = <<>>
    /\ parallel = FALSE
    /\ selected_locations = <<D1>>
    /\ listing \in {[directory \in Directories |-> IF directory = D1 THEN entries ELSE {}] :
                       entries \in SmallSubsets({Entry1January, Entry24at1500,
                                                 Entry31at1645, Entry2019})}
    /\ permissions = AllAccess
    /\ mount_point = [directory \in Directories |-> "/"]

\* Names that put the timestamp pattern to the test: separators and
\* seconds, an hour without minutes, two dashes in a row, a first match
\* that is not a date before one that is, a digit before the year, and two
\* dates in one name.
EntryWithSeconds == <<"2", "0", "1", "8", "-", "1", "2", "-", "3", "1", "-", "1", "6", "-", "4", "5", "-", "3", "0">>

EntryHourOnly == <<"2", "0", "1", "8", "1", "2", "3", "1", "-", "1", "6">>

EntryTwoDashes == <<"2", "0", "1", "8", "-", "-", "1", "2", "-", "3", "1">>

EntryInvalidThenValid == <<"2", "0", "1", "8", "1", "3", "0", "1", "x", "2", "0", "1", "8", "1", "2", "3", "1">>

EntryDigitBeforeYear == <<"1", "2", "0", "1", "8", "1", "2", "3", "1">>

EntryTwoDates == <<"2", "0", "1", "8", "1", "2", "2", "4", "x", "2", "0", "1", "8", "1", "2", "3", "1">>

PatternEntries ==
    {EntryWithSeconds, EntryHourOnly, EntryTwoDashes, EntryInvalidThenValid,
     EntryDigitBeforeYear, EntryTwoDates, EntryXat1645, Entry2019}

\* rotate-backups --dry-run --daily=always d
InitPattern ==
    /\ rotation_scheme = [g \in {"daily"} |-> Always]
    /\ strict = TRUE
    /\ prefer_recent = FALSE
    /\ dry_run = TRUE
    /\ force = FALSE
    /\ include_list = <<>>
    /\ exclude_list = <<>>
    /\ removal_command = DEFAULT_REMOVAL_COMMAND
    /\ config = <<>>
    /\ parallel = FALSE
    /\ selected_locations = <<D1>>
    /\ listing \in {[directory \in Directories |-> IF directory = D1 THEN entries ELSE {}] :
                       entries \in SmallSubsets(PatternEntries)}
    /\ permissions = AllAccess
    /\ mount_point = [directory \in Directories |-> "/"]

\* The locations of a run with more locations than the pool has workers.
LocationNames == <<"0", "1", "2", "3", "4", "5", "6", "7", "8", "9", "d">>

PoolLocations == [i \in 1..Len(LocationNames) |-> <<"d", LocationNames[i]>>]

PoolDirectories == Range(PoolLocations)

\* rotate-backups --parallel --force --hourly=1 d0 d1 .. d9 dd: every
\* location holds two backups of one hour, the locations are on one mount
\* point or each on its own, and one of them may not be writable.
InitPool ==
    /\ rotation_scheme = [g \in {"hourly"} |-> Count(1)]
    /\ strict = TRUE
    /\ prefer_recent = FALSE
    /\ dry_run = FALSE
    /\ force = TRUE
    /\ include_list = <<>>
    /\ exclude_list = <<>>
    /\ removal_command = DEFAULT_REMOVAL_COMMAND
    /\ config = <<>>
    /\ parallel = TRUE
    /\ selected_locations = PoolLocations
    /\ listing = [directory \in PoolDirectories |-> {Entry31at1615, Entry31at1645}]
    /\ permissions \in
          {[directory \in PoolDirectories |->
               [exists |-> TRUE, readable |-> TRUE, writable |-> directory # protected]] :
              protected \in {<<>>, PoolLocations[2]}}
    /\ mount_point \in {[directory \in PoolDirectories |-> <<"/">>],
                        [directory \in PoolDirectories |-> directory]}

\* rotate-backups --config=FILE SCHEME LOCATION..
InitConfig ==
    /\ rotation_scheme \in {EmptyScheme, [g \in {"hourly"} |-> Count(MaxCount)]}
    /\ strict \in BOOLEAN
    /\ prefer_recent = FALSE
    /\ dry_run = FALSE
    /\ force = FALSE
    /\ include_list = <<>>
    /\ exclude_list = <<>>
    /\ removal_command = DEFAULT_REMOVAL_COMMAND
    /\ config \in ConfigFiles
    /\ parallel = FALSE
    /\ selected_locations \in {<<D1>>, <<D2, D1>>}
    /\ listing \in {[directory \in Directories |-> entries] :
                       entries \in {{Entry31at1450, Entry31at1615, Entry31at1645},
                                    {Entry31at1615, EntryXat1645, Entry2019}}}
    /\ permissions = AllAccess
    /\ mount_point = [directory \in Directories |-> "/"]

\* main() constructs the RotateBackups object with the rotation scheme and
\* the options of the command line.
Constructed ==
    given = [rotation_scheme |-> rotation_scheme, strict |-> strict,
             prefer_recent |-> prefer_recent, include_list |-> include_list,
             exclude_list |-> exclude_list, removal_command |-> removal_command]

Init ==
    /\ Start
    /\ \/ InitRotation
       \/ InitFilters
       \/ InitSanity
       \/ InitConcurrent
       \/ InitFraction
       \/ InitStrict
       \/ InitYear
       \/ InitPattern
       \/ InitPool
       \/ InitConfig
    /\ Constructed

\* The initial states of the runs with --parallel.
InitParallel ==
    /\ Start
    /\ InitConcurrent \/ InitPool
    /\ Constructed

\* ------------------------------------------------------------------------
\* The operations.
\* ------------------------------------------------------------------------

\* An exception leaves rotate_backups(), rotate_concurrent() and main().
Raise(exception) ==
    /\ pc' = "exit"
    /\ raised' = exception

\* Location.match(location) of a configured location.
Match(configured, directory) ==
    IF \E i \in 1..Len(configured) : configured[i] = "*"
    THEN Fnmatch(directory, configured)
    ELSE configured = directory

\* The sections of the configuration file that match a directory.
MatchingSections(directory) ==
    {i \in 1..Len(config) : Match(config[i].directory, directory)}

\* rotate_backups() up to the call of collect_backups(): the command list
\* starts empty and RotateBackups.load_config_file() assigns to the
\* properties the truthy values of the first section that matches.
BeginRotation ==
    /\ pc = "main"
    /\ current <= Len(selected_locations)
    /\ FreshLocals
    /\ location' = selected_locations[current]
    /\ LET matching == MatchingSections(selected_locations[current])
           section == config[CHOOSE i \in matching : \A j \in matching : i <= j]
       IN  IF matching = {}
           THEN UNCHANGED properties
           ELSE /\ rotation_scheme' = IF DOMAIN section.rotation_scheme # {}
                                      THEN section.rotation_scheme ELSE rotation_scheme
                /\ include_list' = IF section.options.include_list # <<>>
                                   THEN section.options.include_list ELSE include_list
                /\ exclude_list' = IF section.options.exclude_list # <<>>
                                   THEN section.options.exclude_list ELSE exclude_list
                /\ strict' = IF section.options.strict THEN TRUE ELSE strict
                /\ prefer_recent' = IF section.options.prefer_recent THEN TRUE ELSE prefer_recent
                /\ removal_command' = IF section.options.removal_command # <<>>
                                      THEN section.options.removal_command ELSE removal_command
                /\ UNCHANGED <<dry_run, force>>
    /\ pc' = "collect_backups"
    /\ UNCHANGED <<environment, listing, current, pooled, started, raised>>

\* A collect_backups() that does not look at the exclude list and does not
\* catch the ValueError of an invalid date.
CollectedWhenMatched(entry, includes, excludes) ==
    /\ Search(entry) # NoMatch
    /\ ~(includes # <<>> /\ ~\E i \in 1..Len(includes) : Fnmatch(entry, includes[i]))

\* A collect_backups() that looks at the include list first: an entry that
\* matches it is collected whatever the exclude list says.
CollectedIncludeFirst(entry, includes, excludes) ==
    /\ Search(entry) # NoMatch
    /\ IF includes # <<>> /\ \E i \in 1..Len(includes) : Fnmatch(entry, includes[i])
       THEN TRUE
       ELSE /\ includes = <<>>
            /\ ~\E i \in 1..Len(excludes) : Fnmatch(entry, excludes[i])
    /\ ValidDate(Search(entry))

\* Whether collect_backups() appends a Backup for the entry.
Collected(entry, includes, excludes) ==
    /\ Search(entry) # NoMatch
    /\ ~(excludes # <<>> /\ \E i \in 1..Len(excludes) : Fnmatch(entry, excludes[i]))
    /\ ~(includes # <<>> /\ ~\E i \in 1..Len(includes) : Fnmatch(entry, includes[i]))
    /\ ValidDate(Search(entry))

\* RotateBackups.collect_backups(location) on a readable directory.
CollectBackupsOf(directory, entries, includes, excludes) ==
    SortedBackups({Backup(PathJoin(directory, entry), Search(entry)) :
                      entry \in {e \in entries : Collected(e, includes, excludes)}})

\* The orders in which the loop of collect_backups() may come to the
\* entries of a directory.
RECURSIVE Orders(_)
Orders(entries) ==
    IF entries = {} THEN {<<>>}
    ELSE UNION {{<<entry>> \o rest : rest \in Orders(entries \ {entry})} : entry \in entries}

\* The place sorted() gives a backup among backups in order: behind the
\* ones that are not greater (sorted() is stable and compares with <).
RECURSIVE InsertSorted(_, _)
InsertSorted(ordered, b) ==
    IF ordered = <<>> THEN <<b>>
    ELSE IF BackupLess(b, Head(ordered)) THEN <<b>> \o ordered
    ELSE <<Head(ordered)>> \o InsertSorted(Tail(ordered), b)

\* A collect_backups() that returns its list as the loop filled it.
NotSorted(backups) == backups

\* sorted(backups) of a list of Backup objects.
RECURSIVE SortedList(_)
SortedList(backups) ==
    IF backups = <<>> THEN <<>>
    ELSE InsertSorted(SortedList(SubSeq(backups, 1, Len(backups) - 1)),
                      backups[Len(backups)])

\* RotateBackups.collect_backups(location) on a readable directory whose
\* entries the loop comes to in a given order.
CollectBackupsIn(directory, order, includes, excludes) ==
    LET collected == SelectSeq(order, LAMBDA entry : Collected(entry, includes, excludes))
    IN  SortedList([i \in 1..Len(collected) |->
                       Backup(PathJoin(directory, collected[i]), Search(collected[i]))])

\* A collect_backups() without its except clause.
CaughtNever(exception) == FALSE

\* except ValueError as e: whether collect_backups() catches the exception
\* that datetime.datetime() raised.
Caught(exception) == exception = "ValueError"

\* datetime.datetime() raises ValueError for an entry that passed the
\* lists, and the exception leaves collect_backups().
InvalidDateEscapes(entries, includes, excludes) ==
    /\ ~Caught("ValueError")
    /\ \E entry \in entries :
          /\ Search(entry) # NoMatch
          /\ ~ValidDate(Search(entry))
          /\ ~(excludes # <<>> /\ \E i \in 1..Len(excludes) : Fnmatch(entry, excludes[i]))
          /\ ~(includes # <<>> /\ ~\E i \in 1..Len(includes) : Fnmatch(entry, includes[i]))

\* Location.ensure_readable(override) raises ValueError.
ReadableCheckFails(access, override) ==
    ~override /\ (~access.exists \/ ~access.readable)

\* An ensure_writable() that raises whatever override says.
WritableCheckFailsForced(access, override) ==
    ~access.exists \/ ~access.writable

\* Location.ensure_writable(override) raises ValueError.
WritableCheckFails(access, override) ==
    ~override /\ (~access.exists \/ ~access.writable)

\* sorted_backups = self.collect_backups(location), whatever the order in
\* which the directory yields its entries, and the return when there are no
\* backups.  The value returned then is None: main() ignores it, the loop
\* of rotate_concurrent() over it raises TypeError.
CollectBackups ==
    /\ pc = "collect_backups"
    /\ \E order \in Orders(listing[location]) :
       LET access == permissions[location]
           backups == CollectBackupsIn(location, order, include_list, exclude_list)
       IN  IF ReadableCheckFails(access, force)
           THEN Raise("ValueError") /\ UNCHANGED <<sorted_backups, current>>
           ELSE IF ~access.exists \/ ~access.readable
           THEN Raise("OSError") /\ UNCHANGED <<sorted_backups, current>>
           ELSE IF InvalidDateEscapes(listing[location], include_list, exclude_list)
           THEN Raise("ValueError") /\ UNCHANGED <<sorted_backups, current>>
           ELSE IF backups = <<>>
           THEN IF parallel
                THEN Raise("TypeError") /\ UNCHANGED <<sorted_backups, current>>
                ELSE /\ pc' = "main"
                     /\ current' = current + 1
                     /\ UNCHANGED <<sorted_backups, raised>>
           ELSE /\ sorted_backups' = backups
                /\ pc' = "ensure_writable"
                /\ UNCHANGED <<current, raised>>
    /\ UNCHANGED <<properties, environment, listing, location, most_recent_backup,
                   backups_by_frequency, backups_to_preserve, rotation_commands,
                   position, log, pooled, started>>

\* The check that the directory is writable, made when the default removal
\* command will run, and most_recent_backup = sorted_backups[-1].
EnsureWritable ==
    /\ pc = "ensure_writable"
    /\ IF /\ ~dry_run
          /\ removal_command = DEFAULT_REMOVAL_COMMAND
          /\ WritableCheckFails(permissions[location], force)
       THEN Raise("ValueError") /\ UNCHANGED most_recent_backup
       ELSE /\ most_recent_backup' = sorted_backups[Len(sorted_backups)].timestamp
            /\ pc' = "group_backups"
            /\ UNCHANGED raised
    /\ UNCHANGED <<properties, environment, listing, current, location, sorted_backups,
                   backups_by_frequency, backups_to_preserve, rotation_commands,
                   position, log, pooled, started>>

\* backups_by_frequency = self.group_backups(sorted_backups)
GroupBackups ==
    /\ pc = "group_backups"
    /\ backups_by_frequency' = GroupBackupsOf(sorted_backups)
    /\ pc' = "apply_rotation_scheme"
    /\ UNCHANGED <<properties, environment, listing, current, location, sorted_backups,
                   most_recent_backup, backups_to_preserve, rotation_commands,
                   position, log, pooled, started, raised>>

\* An apply_rotation_scheme() that goes on with an empty scheme.
RefusesNoScheme(scheme) == FALSE

\* if not self.rotation_scheme: raise ValueError(...)
RefusesScheme(scheme) == DOMAIN scheme = {}

\* self.apply_rotation_scheme(backups_by_frequency, most_recent_backup.timestamp)
ApplyRotationScheme ==
    /\ pc = "apply_rotation_scheme"
    /\ IF RefusesScheme(rotation_scheme)
       THEN Raise("ValueError") /\ UNCHANGED backups_by_frequency
       ELSE IF RaisingFrequencies(rotation_scheme) # {}
       THEN /\ Raise("TypeError")
            /\ backups_by_frequency' =
                   PartlyApplied(backups_by_frequency, most_recent_backup,
                                 rotation_scheme, strict, prefer_recent)
       ELSE /\ backups_by_frequency' =
                   ApplyRotationSchemeOf(backups_by_frequency, most_recent_backup,
                                         rotation_scheme, strict, prefer_recent)
            /\ pc' = "find_preservation_criteria"
            /\ UNCHANGED raised
    /\ UNCHANGED <<properties, environment, listing, current, location, sorted_backups,
                   most_recent_backup, backups_to_preserve, rotation_commands,
                   position, log, pooled, started>>

\* backups_to_preserve = self.find_preservation_criteria(backups_by_frequency)
FindPreservationCriteria ==
    /\ pc = "find_preservation_criteria"
    /\ backups_to_preserve' = FindPreservationCriteriaOf(backups_by_frequency)
    /\ position' = 1
    /\ pc' = "rotate"
    /\ UNCHANGED <<properties, environment, listing, current, location, sorted_backups,
                   most_recent_backup, backups_by_frequency, rotation_commands,
                   log, pooled, started, raised>>

\* A membership test that takes two backups of one timestamp for the same.
InPreservationMapByTimestamp(b) ==
    \E c \in DOMAIN backups_to_preserve : c.timestamp = b.timestamp

\* backup in backups_to_preserve
InPreservationMap(b) == b \in DOMAIN backups_to_preserve

\* One turn of "for backup in sorted_backups" for a backup to preserve.
PreserveBackup ==
    /\ pc = "rotate"
    /\ position <= Len(sorted_backups)
    /\ InPreservationMap(sorted_backups[position])
    /\ log' = Append(log, <<"Preserving", sorted_backups[position].pathname>>)
    /\ position' = position + 1
    /\ UNCHANGED <<properties, environment, listing, pc, current, location, sorted_backups,
                   most_recent_backup, backups_by_frequency, backups_to_preserve,
                   rotation_commands, pooled, started, raised>>

\* A loop that waits for its commands when asked to prepare them only.
WaitsForCommandAlways(prepare) == TRUE

\* if not prepare: command.wait()
WaitsForCommand(prepare) == ~prepare

\* A loop that prepares its commands in a dry run too.
PreparesCommandInDryRun == TRUE

\* Whether the loop of rotate_backups() prepares a command for a backup
\* that is not preserved.
PreparesCommand == ~dry_run

\* A loop that appends the pathname to the list of the property itself.
AppendedInPlace(removal, pathname) == Append(removal, pathname)

\* removal_command = list(self.removal_command);
\* removal_command.append(backup.pathname): the list of the property (the
\* list DEFAULT_REMOVAL_COMMAND when no command was configured) after the
\* append to its copy.
AfterAppendToCopy(removal, pathname) == removal

\* One turn of "for backup in sorted_backups" for a backup to delete: unless
\* this is a dry run the removal command is prepared and, unless the caller
\* asked to prepare only, run to its end (command.wait()).
DeleteBackup ==
    /\ pc = "rotate"
    /\ position <= Len(sorted_backups)
    /\ ~InPreservationMap(sorted_backups[position])
    /\ log' = Append(log, <<"Deleting", sorted_backups[position].pathname>>)
    /\ LET command == PrepareCommand(removal_command, sorted_backups[position].pathname,
                                     mount_point[location])
       IN  IF ~PreparesCommand
           THEN /\ position' = position + 1
                /\ UNCHANGED <<removal_command, rotation_commands, started, listing,
                               pc, raised>>
           ELSE /\ removal_command' = AfterAppendToCopy(removal_command,
                                                        sorted_backups[position].pathname)
                /\ rotation_commands' = Append(rotation_commands, command)
                /\ IF ~WaitsForCommand(parallel)
                   THEN /\ position' = position + 1
                        /\ UNCHANGED <<started, listing, pc, raised>>
                   ELSE /\ started' = Append(started, command)
                        /\ IF CommandFails(command, listing, permissions)
                           THEN Raise("ExternalCommandFailed")
                                /\ UNCHANGED <<listing, position>>
                           ELSE /\ listing' = AfterCommand(command, listing)
                                /\ position' = position + 1
                                /\ UNCHANGED <<pc, raised>>
    /\ UNCHANGED <<rotation_scheme, strict, prefer_recent, dry_run, force,
                   include_list, exclude_list>>
    /\ UNCHANGED <<environment, current, location, sorted_backups,
                   most_recent_backup, backups_by_frequency, backups_to_preserve, pooled>>

\* return rotation_commands: main() goes on to its next location,
\* rotate_concurrent() adds the commands to its pool first.
ReturnCommands ==
    /\ pc = "rotate"
    /\ position > Len(sorted_backups)
    /\ pool' = IF parallel THEN pool \o rotation_commands ELSE pool
    /\ current' = current + 1
    /\ pc' = "main"
    /\ UNCHANGED <<properties, environment, listing, locals, running, finished,
                   started, raised>>

\* Every location has been rotated: main() returns, rotate_concurrent()
\* runs its pool when it holds commands.
Finish ==
    /\ pc = "main"
    /\ current > Len(selected_locations)
    /\ pc' = IF parallel /\ Len(pool) > 0 THEN "pool_run" ELSE "exit"
    /\ UNCHANGED <<properties, environment, listing, current, locals, pooled,
                   started, raised>>

\* A pool that does not look at the groups of its commands.
MaySpawnAnyGroup(i) ==
    /\ i \in 1..Len(pool)
    /\ i \notin running \cup finished
    /\ Cardinality(running) < PoolConcurrency

\* Whether pool.run() may start command i now.
MaySpawn(i) ==
    /\ i \in 1..Len(pool)
    /\ i \notin running \cup finished
    /\ Cardinality(running) < PoolConcurrency
    /\ \A j \in running : pool[j].group_by # pool[i].group_by

\* pool.run() starts a command: of the commands that may start, the one
\* that was added first.
PoolSpawn ==
    /\ pc = "pool_run"
    /\ \E i \in 1..Len(pool) :
          /\ MaySpawn(i)
          /\ \A j \in 1..(i - 1) : ~MaySpawn(j)
          /\ running' = running \cup {i}
          /\ started' = Append(started, pool[i])
    /\ UNCHANGED <<properties, environment, listing, pc, current, locals, pool,
                   finished, raised>>

\* pool.run() collects a command that has ended.
PoolCollect ==
    /\ pc = "pool_run"
    /\ \E i \in running :
          /\ running' = running \ {i}
          /\ finished' = finished \cup {i}
          /\ IF CommandFails(pool[i], listing, permissions)
             THEN Raise("ExternalCommandFailed") /\ UNCHANGED listing
             ELSE /\ listing' = AfterCommand(pool[i], listing)
                  /\ UNCHANGED <<pc, raised>>
    /\ UNCHANGED <<properties, environment, current, locals, pool, started>>

\* pool.run() returns when every command has finished.
PoolDone ==
    /\ pc = "pool_run"
    /\ finished = 1..Len(pool)
    /\ pc' = "exit"
    /\ UNCHANGED <<properties, environment, listing, current, locals, pooled,
                   started, raised>>

Next ==
    \/ BeginRotation
    \/ CollectBackups
    \/ EnsureWritable
    \/ GroupBackups
    \/ ApplyRotationScheme
    \/ FindPreservationCriteria
    \/ PreserveBackup
    \/ DeleteBackup
    \/ ReturnCommands
    \/ Finish
    \/ PoolSpawn
    \/ PoolCollect
    \/ PoolDone

Spec == Init /\ [][Next]_vars

\* rotate-backups --parallel with a pool that goes on: pool.run() loops
\* until every command has finished (spawn, collect, sleep), and a removal
\* command that was started ends.
FairSpec ==
    /\ InitParallel
    /\ [][Next]_vars
    /\ WF_vars(PoolSpawn)
    /\ WF_vars(PoolCollect)
    /\ WF_vars(PoolDone)

\* ------------------------------------------------------------------------
\* Vocabulary of the properties.
\* ------------------------------------------------------------------------

\* The loop of rotate_backups() over sorted_backups has ended and the call
\* is about to return its commands.
LoopDone == pc = "rotate" /\ position > Len(sorted_backups)

\* apply_rotation_scheme() has just returned in the current call
\* (backups_by_frequency is not assigned again in the call).
SchemeApplied == pc = "find_preservation_criteria"

\* find_preservation_criteria() has just returned in the current call and
\* the loop over sorted_backups is about to start (backups_to_preserve is
\* not assigned again in the call).
CriteriaFound == pc = "rotate" /\ position = 1

\* The pathnames the current call logged a message of a kind for.
Logged(kind) == {log[i][2] : i \in {j \in 1..Len(log) : log[j][1] = kind}}

\* The number of messages the current call logged for a pathname.
TimesLogged(pathname) == Cardinality({i \in 1..Len(log) : log[i][2] = pathname})

\* The number of prepared commands whose final argument is the pathname.
TimesTargeted(pathname) ==
    Cardinality({i \in 1..Len(rotation_commands) : Target(rotation_commands[i]) = pathname})

\* The collected backups in the time slot of backup b of a frequency.
SlotOf(frequency, b) ==
    {c \in Range(sorted_backups) : PeriodKey(frequency, c) = PeriodKey(frequency, b)}

\* The backups that have the frequency among their preservation reasons.
PreservedFor(frequency) ==
    {b \in DOMAIN backups_to_preserve : frequency \in Range(backups_to_preserve[b])}

\* Every collected backup has exactly one decision, and the decision is
\* "Preserving" exactly for the keys of the preservation map.
OneDecisionEach ==
    /\ DOMAIN backups_to_preserve \subseteq Range(sorted_backups)
    /\ \A b \in Range(sorted_backups) :
          /\ TimesLogged(b.pathname) = 1
          /\ b.pathname \in Logged("Preserving") <=> b \in DOMAIN backups_to_preserve
          /\ b.pathname \in Logged("Deleting") <=> b \notin DOMAIN backups_to_preserve
          /\ ~dry_run =>
                TimesTargeted(b.pathname) = IF b \in DOMAIN backups_to_preserve THEN 0 ELSE 1

CommandCountMatches ==
    Len(rotation_commands) = Len(sorted_backups) - Cardinality(DOMAIN backups_to_preserve)

\* ------------------------------------------------------------------------
\* C1
\* ------------------------------------------------------------------------

\* C1 as stated: when rotate_backups() has gone through a non-empty backup
\* set with a non-empty scheme, every collected backup is either preserved
\* or deleted (one removal command for it unless this is a dry run), and
\* the number of removal commands is the number of collected backups minus
\* the number of preserved backups.
C1_AsStated ==
    (LoopDone /\ sorted_backups # <<>> /\ DOMAIN rotation_scheme # {}) =>
        OneDecisionEach /\ CommandCountMatches

\* C1 (amended): when a call of rotate_backups() on a non-empty backup set
\* with a non-empty scheme reaches its return, every collected backup has
\* exactly one decision, preserved (a key of the preservation map) or
\* deleted, never both and never neither; when not in dry-run exactly one
\* removal command targets each deleted backup and none a preserved one,
\* and the number of removal commands is the number of collected backups
\* minus the number of preserved backups.
C1_Decisions ==
    (LoopDone /\ sorted_backups # <<>> /\ DOMAIN rotation_scheme # {}) =>
        OneDecisionEach /\ (~dry_run => CommandCountMatches)

C1_Witness ==
    /\ LoopDone
    /\ ~dry_run
    /\ Len(sorted_backups) = 3
    /\ Cardinality(DOMAIN backups_to_preserve) = 1
    /\ Len(rotation_commands) = 2

\* ------------------------------------------------------------------------
\* C2
\* ------------------------------------------------------------------------

\* The entry a command removes.
Entry(command) == BaseName(Target(command))

\* The filename carries a timestamp that is a valid date.
HasValidTimestamp(entry) ==
    Search(entry) # NoMatch /\ ValidDate(Search(entry))

MatchesAny(entry, patterns) == \E i \in 1..Len(patterns) : Fnmatch(entry, patterns[i])

\* C2: no removal command targets an entry that was not collected as a
\* backup: every command prepared, pooled or started removes an entry with
\* a timestamp that is a valid date, and every command the current call
\* prepared removes an entry that matches no pattern of the exclude list
\* and, when the include list is not empty, one of its patterns.
C2_OnlyCollectedTargeted ==
    /\ \A command \in Range(rotation_commands) \cup Range(pool) \cup Range(started) :
          HasValidTimestamp(Entry(command))
    /\ \A command \in Range(rotation_commands) :
          /\ ~MatchesAny(Entry(command), exclude_list)
          /\ include_list # <<>> => MatchesAny(Entry(command), include_list)
          /\ Entry(command) \notin {EntryInvalidDate, EntryNoTimestamp}

\* A call deleted a backup of a directory that also holds an excluded entry.
C2_Witness ==
    /\ LoopDone
    /\ rotation_commands # <<>>
    /\ exclude_list # <<>>
    /\ \E entry \in listing[location] : MatchesAny(entry, exclude_list)

\* ------------------------------------------------------------------------
\* C3
\* ------------------------------------------------------------------------

\* C3: with an empty rotation scheme and at least one collected backup the
\* call raises ValueError: it never gets past apply_rotation_scheme(), and
\* no removal command is prepared, pooled or started.
C3_EmptySchemeRaises ==
    (DOMAIN rotation_scheme = {} /\ sorted_backups # <<>>) =>
        /\ pc \in {"ensure_writable", "group_backups", "apply_rotation_scheme", "exit"}
        /\ pc = "exit" => raised = "ValueError"
        /\ rotation_commands = <<>>
        /\ pool = <<>>
        /\ started = <<>>
        /\ log = <<>>

\* The call raised ValueError out of apply_rotation_scheme() with backups
\* collected, grouped and left in place.
C3_Witness ==
    /\ DOMAIN rotation_scheme = {}
    /\ Len(sorted_backups) >= 2
    /\ backups_by_frequency # <<>>
    /\ raised = "ValueError"
    /\ pc = "exit"
    /\ Cardinality(listing[location]) >= 2

\* ------------------------------------------------------------------------
\* C4
\* ------------------------------------------------------------------------

\* C4: a removal command is started only when the decisions of its
\* location are complete.  In rotate_backups() that is in the loop that
\* follows find_preservation_criteria(), for a collected backup that is not
\* in the preservation map, and neither the backups nor the map change
\* while the loop runs; in rotate_concurrent() it is in pool.run(), after
\* rotate_backups() has returned for every location given.
C4_DecisionsBeforeDeletion ==
    [][ /\ started' # started =>
             /\ Len(started') = Len(started) + 1
             /\ IF parallel
                THEN /\ pc = "pool_run"
                     /\ current > Len(selected_locations)
                     /\ started'[Len(started')] \in Range(pool)
                ELSE /\ pc = "rotate"
                     /\ \E b \in Range(sorted_backups) \ DOMAIN backups_to_preserve :
                           Target(started'[Len(started')]) = b.pathname
        /\ listing' # listing =>
             \E i \in 1..Len(started') : listing' = AfterCommand(started'[i], listing)
        /\ (pc = "rotate" /\ pc' = "rotate") =>
             /\ sorted_backups' = sorted_backups
             /\ backups_to_preserve' = backups_to_preserve
             /\ backups_by_frequency' = backups_by_frequency
      ]_vars

\* rotate_concurrent() has started a command of its second location.
C4_Witness ==
    /\ parallel
    /\ pc = "pool_run"
    /\ selected_locations = <<D1, D2>>
    /\ \E i \in 1..Len(started) : DirName(Target(started[i])) = D2
    /\ \E i \in 1..Len(started) : DirName(Target(started[i])) = D1

\* ------------------------------------------------------------------------
\* C5
\* ------------------------------------------------------------------------

\* C5: in a dry run no removal command is prepared, pooled or started,
\* the list rotate_backups() returns is empty, and no step changes the
\* entries of a directory.
C5_DryRunChangesNothing ==
    /\ [](dry_run => rotation_commands = <<>> /\ pool = <<>> /\ started = <<>>)
    /\ [][dry_run => listing' = listing]_vars

\* A dry run that decided to delete two backups is about to return.
C5_Witness ==
    /\ dry_run
    /\ LoopDone
    /\ Cardinality(Logged("Deleting")) = 2
    /\ Cardinality(listing[location]) = 3

\* ------------------------------------------------------------------------
\* C6
\* ------------------------------------------------------------------------

\* Every value of the scheme is 'always'.
AllAlways == DOMAIN rotation_scheme # {} /\ \A f \in DOMAIN rotation_scheme : rotation_scheme[f] = Always

\* The smallest (largest when newest) backup of a set in the order of
\* (timestamp, pathname).
Extreme(S, newest) ==
    CHOOSE b \in S : \A c \in S \ {b} : IF newest THEN BackupLess(c, b) ELSE BackupLess(b, c)

\* C6 as stated: with a non-empty scheme whose values are all 'always'
\* every collected backup is in the preservation map, so that none is
\* deleted.
C6_AsStated ==
    (CriteriaFound /\ AllAlways) => DOMAIN backups_to_preserve = Range(sorted_backups)

\* C6: with a non-empty scheme whose values are all 'always' no time slot
\* is dropped: for every frequency of the scheme the backups preserved for
\* it are exactly the representatives of its slots, one per slot (the
\* oldest of the slot, the newest with prefer_recent), and a collected
\* backup is left out of the preservation map exactly when it is the
\* representative of no slot of a frequency of the scheme.
C6_AlwaysKeepsEverySlot ==
    (CriteriaFound /\ AllAlways) =>
        /\ \A f \in DOMAIN rotation_scheme :
              PreservedFor(f) =
                 {Extreme(SlotOf(f, b), prefer_recent) : b \in Range(sorted_backups)}
        /\ \A b \in Range(sorted_backups) :
              b \in DOMAIN backups_to_preserve <=>
                 \E f \in DOMAIN rotation_scheme : b = Extreme(SlotOf(f, b), prefer_recent)

\* A scheme of two frequencies, both 'always', leaves a backup out of the
\* preservation map, and the backup is deleted.
C6_Witness ==
    /\ LoopDone
    /\ AllAlways
    /\ Cardinality(DOMAIN rotation_scheme) = 2
    /\ Len(sorted_backups) = 3
    /\ Cardinality(DOMAIN backups_to_preserve) = 2
    /\ Cardinality(Logged("Deleting")) = 1
    /\ \E b \in DOMAIN backups_to_preserve : Len(backups_to_preserve[b]) = 1

\* ------------------------------------------------------------------------
\* C7
\* ------------------------------------------------------------------------

\* main() rotates the location a second time, with the scheme and the
\* options of the first time, and the first time removed what it decided
\* to delete.
SecondRun ==
    /\ ~parallel /\ ~dry_run /\ config = <<>> /\ raised = "None"
    /\ selected_locations = <<D1, D1>>
    /\ include_list = <<>> /\ exclude_list = <<>>
    /\ current = 2
    /\ pc # "main"

\* C7: rotation is idempotent: rotate_backups() run a second time on a
\* directory, with the same scheme and options, on exactly the backups
\* the first run preserved, decides to delete nothing.
C7_Idempotent ==
    SecondRun => Logged("Deleting") = {}

\* The same without a weekly frequency in the scheme.
C7_IdempotentWithoutWeekly ==
    (SecondRun /\ "weekly" \notin DOMAIN rotation_scheme) => Logged("Deleting") = {}

\* ------------------------------------------------------------------------
\* C8
\* ------------------------------------------------------------------------

\* The collected backups of a period of a frequency.
MembersOf(frequency, period) ==
    {c \in Range(sorted_backups) : PeriodKey(frequency, c) = period}

\* C8: after apply_rotation_scheme() every bucket that is left of a
\* frequency of the scheme holds exactly one backup, the smallest of the
\* collected backups of the bucket in the order of (timestamp, pathname),
\* the largest with prefer_recent; a frequency whose value is 'always'
\* has every one of its buckets left; and the result is a function of the
\* backups, the scheme and the options.
C8_OneRepresentative ==
    SchemeApplied =>
        /\ \A f \in DOMAIN rotation_scheme :
              /\ DOMAIN backups_by_frequency[f] \subseteq
                    {PeriodKey(f, b) : b \in Range(sorted_backups)}
              /\ rotation_scheme[f] = Always =>
                    DOMAIN backups_by_frequency[f] =
                       {PeriodKey(f, b) : b \in Range(sorted_backups)}
              /\ \A period \in DOMAIN backups_by_frequency[f] :
                    /\ Len(backups_by_frequency[f][period]) = 1
                    /\ LET chosen == backups_by_frequency[f][period][1]
                       IN  /\ chosen \in MembersOf(f, period)
                           /\ \A c \in MembersOf(f, period) \ {chosen} :
                                 IF prefer_recent THEN BackupLess(c, chosen)
                                 ELSE BackupLess(chosen, c)
        /\ backups_by_frequency =
              ApplyRotationSchemeOf(GroupBackupsOf(sorted_backups), most_recent_backup,
                                    rotation_scheme, strict, prefer_recent)

\* With prefer_recent a bucket of two backups of one timestamp was reduced
\* to the one with the larger pathname.
C8_Witness ==
    /\ SchemeApplied
    /\ prefer_recent
    /\ \E f \in DOMAIN rotation_scheme : \E period \in DOMAIN backups_by_frequency[f] :
          /\ Cardinality(MembersOf(f, period)) >= 2
          /\ \E c \in MembersOf(f, period) :
                /\ c # backups_by_frequency[f][period][1]
                /\ c.timestamp = backups_by_frequency[f][period][1].timestamp

\* ------------------------------------------------------------------------
\* C9
\* ------------------------------------------------------------------------

\* At most N backups carry a frequency whose count is N, for the counts
\* from a lower limit on.
AtMostCount(lowest) ==
    CriteriaFound =>
        \A f \in DOMAIN rotation_scheme :
           (rotation_scheme[f] # Always /\ rotation_scheme[f][2] >= lowest) =>
               Cardinality(PreservedFor(f)) <= rotation_scheme[f][2]

\* C9: for every frequency whose count in the scheme is an integer N >= 0,
\* 0 included, at most N backups have the frequency among their
\* preservation reasons, with and without strict.
C9_AtMostN == AtMostCount(0)

\* The same for the counts N >= 1.
C9_AtMostPositiveN == AtMostCount(1)

\* ------------------------------------------------------------------------
\* C10
\* ------------------------------------------------------------------------

\* The number of the hour of a timestamp.
HourOf(ts) == Minutes(ts) \div 60

\* C10: with strict and an hourly count of N >= 1 a backup is preserved
\* for the hourly frequency only if its hour is the hour of the most
\* recent backup or one of the N - 1 hours before it.
C10_StrictHourlyWindow ==
    (CriteriaFound /\ strict /\ "hourly" \in DOMAIN rotation_scheme
       /\ rotation_scheme["hourly"] # Always /\ rotation_scheme["hourly"][2] >= 1) =>
        \A b \in PreservedFor("hourly") :
           /\ HourOf(b.timestamp) <= HourOf(most_recent_backup)
           /\ HourOf(most_recent_backup) - HourOf(b.timestamp) <= rotation_scheme["hourly"][2] - 1

\* What the code keeps to: no backup preserved for the hourly frequency is
\* more than N hours older than the most recent backup.
C10_StrictHourlyCutoff ==
    (CriteriaFound /\ strict /\ "hourly" \in DOMAIN rotation_scheme
       /\ rotation_scheme["hourly"] # Always) =>
        \A b \in PreservedFor("hourly") :
           Minutes(most_recent_backup) - Minutes(b.timestamp) <= 60 * rotation_scheme["hourly"][2]

\* ------------------------------------------------------------------------
\* C11
\* ------------------------------------------------------------------------

\* The buckets of a frequency that hold a collected backup.
BucketsOf(frequency) == {PeriodKey(frequency, b) : b \in Range(sorted_backups)}

Min(a, b) == IF a <= b THEN a ELSE b

\* C11: without strict, for a frequency with a count N >= 1, the number of
\* backups preserved for the frequency is min(N, number of buckets of the
\* frequency that hold a backup), the buckets that are left are that many
\* buckets of the frequency, and so no bucket is dropped when no more than
\* N buckets hold a backup, however far it is from the most recent backup.
C11_RelaxedKeepsN ==
    (CriteriaFound /\ ~strict) =>
        \A f \in DOMAIN rotation_scheme :
           (rotation_scheme[f] # Always /\ rotation_scheme[f][2] >= 1) =>
               LET n == rotation_scheme[f][2]
               IN  /\ Cardinality(PreservedFor(f)) = Min(n, Cardinality(BucketsOf(f)))
                   /\ DOMAIN backups_by_frequency[f] \subseteq BucketsOf(f)
                   /\ Cardinality(DOMAIN backups_by_frequency[f]) =
                         Min(n, Cardinality(BucketsOf(f)))

\* Without strict, an hourly count of two preserved two backups of which
\* the older one is more than two hours older than the most recent backup.
C11_Witness ==
    /\ CriteriaFound
    /\ ~strict
    /\ "hourly" \in DOMAIN rotation_scheme
    /\ rotation_scheme["hourly"] = Count(2)
    /\ Cardinality(BucketsOf("hourly")) = 3
    /\ Cardinality(PreservedFor("hourly")) = 2
    /\ \E b \in PreservedFor("hourly") :
          Minutes(most_recent_backup) - Minutes(b.timestamp) > 120

\* ------------------------------------------------------------------------
\* C12
\* ------------------------------------------------------------------------

\* The representatives of the buckets of a frequency.
Representatives(frequency) ==
    {Extreme(MembersOf(frequency, period), prefer_recent) : period \in BucketsOf(frequency)}

\* The representatives the count limit of a frequency has to choose from:
\* with strict those not older than the minimum date.
BeforeCountLimit(frequency) ==
    IF strict
    THEN {b \in Representatives(frequency) :
             ~BeforeMinimumDate(b, MinimumDate(most_recent_backup, frequency,
                                               rotation_scheme[frequency][2]))}
    ELSE Representatives(frequency)

\* The representatives apply_rotation_scheme() left of a frequency.
KeptOf(frequency) ==
    UNION {Range(backups_by_frequency[frequency][period]) :
              period \in DOMAIN backups_by_frequency[frequency]}

\* Every representative the count limit discards is older than every
\* representative it keeps, for the frequencies of a set.
OldestDiscarded(frequencies) ==
    SchemeApplied =>
        \A f \in DOMAIN rotation_scheme \cap frequencies :
           rotation_scheme[f] # Always =>
               \A discarded \in BeforeCountLimit(f) \ KeptOf(f) : \A kept \in KeptOf(f) :
                  TimestampLess(discarded.timestamp, kept.timestamp)

\* C12: when apply_rotation_scheme() trims a frequency to its last N
\* buckets, every representative the count limit discards has a timestamp
\* earlier than every representative kept, for each of the six frequencies.
C12_OldestDiscarded == OldestDiscarded(SUPPORTED_FREQUENCIES)

\* The same for the frequencies other than weekly.
C12_OldestDiscardedNotWeekly == OldestDiscarded(SUPPORTED_FREQUENCIES \ {"weekly"})

\* ------------------------------------------------------------------------
\* C13
\* ------------------------------------------------------------------------

\* The backups rotate_backups() would preserve of the collected backups
\* with the scheme and prefer_recent of this call and a strict of choice.
PreservedWith(is_strict, frequencies) ==
    DOMAIN FindPreservationCriteriaOf(
               ApplyRotationSchemeOf(GroupBackupsOf(sorted_backups), most_recent_backup,
                                     [f \in DOMAIN rotation_scheme \cap frequencies |->
                                         rotation_scheme[f]],
                                     is_strict, prefer_recent))

\* C13: every backup that is preserved with strict is also preserved
\* without strict, for the same backups, scheme and prefer_recent.
C13_RelaxedPreservesMore ==
    (CriteriaFound /\ strict) =>
        DOMAIN backups_to_preserve \subseteq PreservedWith(FALSE, SUPPORTED_FREQUENCIES)

\* The same for the scheme without its weekly frequency.
C13_RelaxedPreservesMoreNotWeekly ==
    CriteriaFound =>
        PreservedWith(TRUE, SUPPORTED_FREQUENCIES \ {"weekly"})
            \subseteq PreservedWith(FALSE, SUPPORTED_FREQUENCIES \ {"weekly"})

\* ------------------------------------------------------------------------
\* C14
\* ------------------------------------------------------------------------

\* collect_backups() has just returned backups in the current call: the
\* entries of the location are the entries it listed.
JustCollected == pc = "ensure_writable"

\* The entry was collected as a backup of the current location.
IsCollected(entry) ==
    \E b \in Range(sorted_backups) : b.pathname = PathJoin(location, entry)

\* C14: the exclude list takes precedence over the include list: an entry
\* whose name holds a timestamp (a valid date) is collected exactly when
\* the exclude list is empty or no pattern of it matches the name, and the
\* include list is empty or a pattern of it matches the name; an entry
\* that matches both lists is not collected; nothing else is collected.
C14_ExcludeBeforeInclude ==
    JustCollected =>
        /\ \A entry \in listing[location] :
              HasValidTimestamp(entry) =>
                  (IsCollected(entry) <=>
                      /\ exclude_list = <<>> \/ ~MatchesAny(entry, exclude_list)
                      /\ include_list = <<>> \/ MatchesAny(entry, include_list))
        /\ \A entry \in listing[location] :
              (MatchesAny(entry, exclude_list) /\ MatchesAny(entry, include_list)) =>
                  ~IsCollected(entry)
        /\ \A b \in Range(sorted_backups) :
              \E entry \in listing[location] :
                 HasValidTimestamp(entry) /\ b.pathname = PathJoin(location, entry)

\* A directory with an entry that matches both lists, an entry that
\* matches the include list only and an entry with a timestamp that
\* matches neither, of which one was collected.
C14_Witness ==
    /\ JustCollected
    /\ include_list # <<>> /\ exclude_list # <<>>
    /\ \E entry \in listing[location] :
          MatchesAny(entry, exclude_list) /\ MatchesAny(entry, include_list)
    /\ \E entry \in listing[location] :
          HasValidTimestamp(entry) /\ ~MatchesAny(entry, include_list)
    /\ Len(sorted_backups) = 1

\* ------------------------------------------------------------------------
\* C15
\* ------------------------------------------------------------------------

\* The fields the pattern matched in the name form no date.
HasInvalidDate(entry) ==
    Search(entry) # NoMatch /\ ~ValidDate(Search(entry))

\* A sanity check of the current location fails and is not overridden.
SanityCheckFailed ==
    /\ ~force
    /\ \/ ~permissions[location].exists
       \/ ~permissions[location].readable
       \/ ~permissions[location].writable

\* C15: an entry whose fields form no valid date makes neither
\* collect_backups() nor rotate_backups() raise: a ValueError of a call on
\* a directory with such an entry comes from a sanity check or from the
\* empty scheme; the entry is not collected, and the backups collected
\* are the ones collected from the directory without the entry, so
\* that the decisions are the same.
C15_InvalidDateIgnored ==
    /\ (raised = "ValueError" /\ \E entry \in listing[location] : HasInvalidDate(entry)) =>
           \/ SanityCheckFailed
           \/ DOMAIN rotation_scheme = {} /\ sorted_backups # <<>>
    /\ JustCollected =>
           /\ \A entry \in listing[location] : HasInvalidDate(entry) => ~IsCollected(entry)
           /\ sorted_backups =
                 CollectBackupsOf(location,
                                  {entry \in listing[location] : ~HasInvalidDate(entry)},
                                  include_list, exclude_list)

\* A call on a directory with an entry of an invalid date deleted a
\* backup, preserved another and left the entry in place.
C15_Witness ==
    /\ LoopDone
    /\ raised = "None"
    /\ EntryInvalidDate \in listing[location]
    /\ Len(sorted_backups) = 2
    /\ Cardinality(Logged("Deleting")) = 1
    /\ Len(started) = 1

\* ------------------------------------------------------------------------
\* C16
\* ------------------------------------------------------------------------

\* rotate_backups() makes the check that the location is writable.
ChecksWritable == ~dry_run /\ removal_command = DEFAULT_REMOVAL_COMMAND

\* The current call is past the sanity checks.
PastSanityChecks ==
    pc \in {"group_backups", "apply_rotation_scheme", "find_preservation_criteria", "rotate"}

NoBackupsFound ==
    /\ location # <<>>
    /\ permissions[location].exists /\ permissions[location].readable
    /\ sorted_backups = <<>>

\* C17: a location without backups is no error: no exception is raised
\* over the value rotate_backups() returned for it, and a
\* rotate_concurrent() that has returned has started the commands
\* prepared for all of its locations.
C17_NoBackupsIsNoError ==
    /\ NoBackupsFound => raised = "None"
    /\ (parallel /\ pc = "exit" /\ raised = "None") => Range(pool) \subseteq Range(started)

\* What holds: TypeError is raised only by rotate_concurrent(), for a
\* location without backups, before a command has been started; main()
\* without --parallel goes on to its next location.
C17_TypeErrorOnlyInParallel ==
    /\ (NoBackupsFound /\ raised # "None") =>
          /\ raised = "TypeError"
          /\ parallel
          /\ CollectBackupsOf(location, listing[location], include_list, exclude_list) = <<>>
          /\ started = <<>>
    /\ (parallel /\ pc = "exit" /\ raised = "None") => Range(pool) \subseteq Range(started)

\* ------------------------------------------------------------------------
\* C18
\* ------------------------------------------------------------------------

\* A section of the configuration file matches the current location.
SectionMatches == location # <<>> /\ MatchingSections(location) # {}

\* The first section that matches the current location.
MatchingSection ==
    config[CHOOSE i \in MatchingSections(location) :
              \A j \in MatchingSections(location) : i <= j]

\* The rotation scheme, the lists and the removal command that the section
\* defines are the ones in use.
SectionValuesInUse ==
    /\ DOMAIN MatchingSection.rotation_scheme # {} =>
          rotation_scheme = MatchingSection.rotation_scheme
    /\ MatchingSection.options.include_list # <<>> =>
          include_list = MatchingSection.options.include_list
    /\ MatchingSection.options.exclude_list # <<>> =>
          exclude_list = MatchingSection.options.exclude_list
    /\ MatchingSection.options.removal_command # <<>> =>
          removal_command = MatchingSection.options.removal_command

\* C18: when a section of the configuration file matches the location,
\* the rotation scheme and every option value that the section defines is
\* the one used for the rotation, whatever the caller passed.  A strict
\* of False is the value of a section that says "strict = no", a
\* prefer_recent of True that of one that says "prefer-recent = yes".
C18_SectionOverrides ==
    SectionMatches =>
        /\ SectionValuesInUse
        /\ strict = MatchingSection.options.strict
        /\ MatchingSection.options.prefer_recent => prefer_recent

\* What holds: the values of the section that are true in Python (a
\* scheme with a frequency, a list with a pattern, a command, a True) are
\* the ones in use.
C18_TrueValuesOverride ==
    SectionMatches =>
        /\ SectionValuesInUse
        /\ MatchingSection.options.strict => strict
        /\ MatchingSection.options.prefer_recent => prefer_recent

\* ------------------------------------------------------------------------
\* C19
\* ------------------------------------------------------------------------

\* The rotation scheme and the options of the object are the ones it was
\* constructed with.
AsConstructed ==
    /\ rotation_scheme = given.rotation_scheme
    /\ strict = given.strict
    /\ prefer_recent = given.prefer_recent
    /\ include_list = given.include_list
    /\ exclude_list = given.exclude_list
    /\ removal_command = given.removal_command

\* C19: the object keeps no state across calls: a call for a location
\* that no section of the configuration file matches works with the
\* rotation scheme and the options given at construction, whatever
\* location was rotated before.
C19_NoStateAcrossCalls ==
    (location # <<>> /\ MatchingSections(location) = {}) => AsConstructed

\* What holds: the rotation scheme and the options of the object change
\* only when a call starts for a location that a section matches, and
\* until then they are the ones given at construction.
C19_OnlySectionsChangeOptions ==
    /\ [][properties' # properties =>
             /\ pc = "main" /\ pc' = "collect_backups"
             /\ MatchingSections(location') # {}]_vars
    /\ []((\A i \in 1..Len(selected_locations) :
              i <= current => MatchingSections(selected_locations[i]) = {})
          => AsConstructed)

\* ------------------------------------------------------------------------
\* C20
\* ------------------------------------------------------------------------

\* apply_rotation_scheme() of the current call raised.
ApplyRaised ==
    /\ pc = "exit"
    /\ raised \in {"ValueError", "TypeError"}
    /\ most_recent_backup # NoTimestamp

\* C20: apply_rotation_scheme() is all or nothing: when it raises,
\* backups_by_frequency is as group_backups() returned it.
C20_AllOrNothing ==
    ApplyRaised => backups_by_frequency = GroupBackupsOf(sorted_backups)

\* What holds: the ValueError of an empty scheme leaves
\* backups_by_frequency as it was.
C20_EmptySchemeLeavesGroups ==
    (ApplyRaised /\ raised = "ValueError") =>
        backups_by_frequency = GroupBackupsOf(sorted_backups)

\* ------------------------------------------------------------------------
\* C21
\* ------------------------------------------------------------------------

\* The commands of the pool that are in flight belong to different groups.
OnePerGroup ==
    \A i \in running : \A j \in running \ {i} : pool[i].group_by # pool[j].group_by

\* The number of times a command occurs in a list of commands.
TimesIn(commands, command) ==
    Cardinality({i \in 1..Len(commands) : commands[i] = command})

\* Every command added to the pool has been started once and has finished.
RanOnce ==
    /\ finished = 1..Len(pool)
    /\ \A command \in Range(pool) \cup Range(started) :
          TimesIn(started, command) = TimesIn(pool, command)

\* At every moment of rotate_concurrent() at most one command of a group
\* and at most 10 commands in total are in flight, and no command has been
\* started more often than it was prepared.
InFlightBounded ==
    parallel =>
        /\ OnePerGroup
        /\ Cardinality(running) <= PoolConcurrency
        /\ \A command \in Range(started) :
              TimesIn(started, command) <= TimesIn(pool, command)

Cutoff(frequency) ==
    MinimumDate(sorted_backups[Len(sorted_backups)].timestamp, frequency,
                rotation_scheme[frequency][2])

\* The representatives of the buckets of a frequency whose timestamp is
\* the cutoff or later.
AtOrAfterCutoff(frequency) ==
    {b \in Representatives(frequency) :
        ~TupleLess(<<Minutes(b.timestamp), b.timestamp[6]>>, Cutoff(frequency))}

C23_AbsentPreservesNothing ==
    (LoopDone /\ sorted_backups # <<>>) =>
        /\ \A b \in DOMAIN backups_to_preserve :
              Range(backups_to_preserve[b]) \subseteq DOMAIN rotation_scheme
        /\ \A f \in SUPPORTED_FREQUENCIES \ DOMAIN rotation_scheme :
              DOMAIN backups_by_frequency[f] = {}
        /\ \A b \in Range(sorted_backups) :
              (\A f \in DOMAIN rotation_scheme : b \notin KeptOf(f)) =>
                  /\ b.pathname \in Logged("Deleting")
                  /\ b.pathname \notin Logged("Preserving")
                  /\ ~dry_run => TimesTargeted(b.pathname) = 1

\* A backup that is alone in its minute was deleted by a scheme without
\* the minutely frequency.
C23_Witness ==
    /\ LoopDone
    /\ ~dry_run
    /\ "minutely" \notin DOMAIN rotation_scheme
    /\ \E b \in Range(sorted_backups) :
          /\ MembersOf("minutely", PeriodKey("minutely", b)) = {b}
          /\ b.pathname \in Logged("Deleting")
          /\ TimesTargeted(b.pathname) = 1

\* ------------------------------------------------------------------------
\* C24
\* ------------------------------------------------------------------------

\* The place of a frequency in the order minutely, hourly, daily, weekly,
\* monthly, yearly.
PlaceOf(frequency) ==
    CHOOSE i \in 1..Len(ORDERED_FREQUENCIES) : ORDERED_FREQUENCIES[i] = frequency

\* C24: for every preserved backup the list of reasons that
\* find_preservation_criteria() returns is not empty, holds a frequency at
\* most once, holds the frequencies in the order minutely, hourly, daily,
\* weekly, monthly, yearly, and holds a frequency exactly when the backup
\* is the representative of a bucket of the frequency that
\* apply_rotation_scheme() left; the backups with a list are the preserved
\* ones.
C24_ReasonLists ==
    CriteriaFound =>
        /\ DOMAIN backups_to_preserve = UNION {KeptOf(f) : f \in SUPPORTED_FREQUENCIES}
        /\ \A b \in DOMAIN backups_to_preserve :
              LET reasons == backups_to_preserve[b]
              IN  /\ reasons # <<>>
                  /\ \A i \in 1..Len(reasons) : \A j \in (i + 1)..Len(reasons) :
                        PlaceOf(reasons[i]) < PlaceOf(reasons[j])
                  /\ \A f \in SUPPORTED_FREQUENCIES :
                        f \in Range(reasons) <=>
                            /\ PeriodKey(f, b) \in DOMAIN backups_by_frequency[f]
                            /\ backups_by_frequency[f][PeriodKey(f, b)] = <<b>>
                            /\ b \in Representatives(f)

\* A backup is preserved for two frequencies, the other backups are not.
C24_Witness ==
    /\ CriteriaFound
    /\ Cardinality(DOMAIN rotation_scheme) = 2
    /\ \E b \in DOMAIN backups_to_preserve : Len(backups_to_preserve[b]) = 2
    /\ \E b \in DOMAIN backups_to_preserve : Len(backups_to_preserve[b]) = 1
    /\ Range(sorted_backups) \ DOMAIN backups_to_preserve # {}

\* ------------------------------------------------------------------------
\* C25
\* ------------------------------------------------------------------------

\* The place of the backup a command removes in sorted_backups.
PlaceOfTarget(command) ==
    CHOOSE k \in 1..Len(sorted_backups) : sorted_backups[k].pathname = Target(command)

\* C25: collect_backups() returns the backups in ascending order of
\* (timestamp, pathname) whatever the order in which the directory yields
\* its entries, every collected entry is in the result once, two backups
\* of one timestamp included, and rotate_backups() appends its removal
\* commands in the same ascending order.
C25_AscendingOrder ==
    /\ JustCollected =>
          /\ \A i \in 1..Len(sorted_backups) : \A j \in (i + 1)..Len(sorted_backups) :
                BackupLess(sorted_backups[i], sorted_backups[j])
          /\ Len(sorted_backups) =
                Cardinality({entry \in listing[location] :
                                Collected(entry, include_list, exclude_list)})
          /\ \A entry \in listing[location] :
                Collected(entry, include_list, exclude_list) =>
                    Backup(PathJoin(location, entry), TIMESTAMP_PATTERN(entry))
                        \in Range(sorted_backups)
    /\ (pc = "rotate" /\ ~dry_run) =>
          \A i \in 1..Len(rotation_commands) : \A j \in (i + 1)..Len(rotation_commands) :
             PlaceOfTarget(rotation_commands[i]) < PlaceOfTarget(rotation_commands[j])

\* Two removal commands were appended, the second of them for one of two
\* collected backups of one timestamp.
C25_Witness ==
    /\ pc = "rotate"
    /\ ~dry_run
    /\ Len(rotation_commands) = 2
    /\ \E i \in 1..Len(sorted_backups) : \E j \in (i + 1)..Len(sorted_backups) :
          /\ sorted_backups[i].timestamp = sorted_backups[j].timestamp
          /\ Target(rotation_commands[2]) \in
                {sorted_backups[i].pathname, sorted_backups[j].pathname}

\* ------------------------------------------------------------------------
\* C26
\* ------------------------------------------------------------------------

\* Position i of a name starts four digits, two digits and two digits,
\* the first two followed by a non-digit when a, b are 1 and directly by
\* the next digits when they are 0.
DateAt(name, i, a, b) ==
    /\ DigitsAt(name, i, 4)
    /\ a = 1 => (i + 4 <= Len(name) /\ name[i + 4] \notin Digits)
    /\ DigitsAt(name, i + 4 + a, 2)
    /\ b = 1 => (i + 6 + a <= Len(name) /\ name[i + 6 + a] \notin Digits)
    /\ DigitsAt(name, i + 6 + a + b, 2)

\* Position i of a name starts, after an optional non-digit, two digits.
TwoDigitsAfter(name, i) ==
    IF DigitsAt(name, i, 2) THEN i
    ELSE IF i <= Len(name) /\ name[i] \notin Digits /\ DigitsAt(name, i + 1, 2) THEN i + 1
    ELSE 0

\* The fields of the leftmost substring of a name that matches four
\* digits, two digits and two digits: hour and minute when both follow,
\* the second when it follows them, 0 for a field that is absent.
LeftmostFields(name) ==
    LET Shapes == {0, 1} \X {0, 1}
        starts == {i \in 1..Len(name) : \E ab \in Shapes : DateAt(name, i, ab[1], ab[2])}
        i == CHOOSE k \in starts : \A j \in starts : k <= j
        ab == CHOOSE shape \in Shapes : DateAt(name, i, shape[1], shape[2])
        month_at == i + 4 + ab[1]
        day_at == month_at + 2 + ab[2]
        hour_at == TwoDigitsAfter(name, day_at + 2)
        minute_at == IF hour_at = 0 THEN 0 ELSE TwoDigitsAfter(name, hour_at + 2)
        second_at == IF minute_at = 0 THEN 0 ELSE TwoDigitsAfter(name, minute_at + 2)
        Field(at) == IF at = 0 \/ minute_at = 0 THEN 0 ELSE Number(name, at, 2)
    IN  IF starts = {} THEN NoMatch
        ELSE <<Number(name, i, 4), Number(name, month_at, 2), Number(name, day_at, 2),
               Field(hour_at), Field(minute_at), Field(second_at)>>

\* C26: the timestamp of an entry is taken from the leftmost substring of
\* its name that matches four digits, two digits, two digits, each
\* optionally followed by one non-digit; hour and minute are taken only
\* when both follow the date, the second when it follows them, and an
\* absent field is 0; an entry is collected exactly when that leftmost
\* match is a valid date, whatever follows it in the name.
C26_LeftmostMatch ==
    (JustCollected /\ include_list = <<>> /\ exclude_list = <<>>) =>
        \A entry \in listing[location] :
           LET fields == LeftmostFields(entry)
           IN  /\ IsCollected(entry) <=> (fields # NoMatch /\ ValidDate(fields))
               /\ IsCollected(entry) =>
                     Backup(PathJoin(location, entry), fields) \in Range(sorted_backups)

\* Of a name whose first match is not a date and that holds a date behind
\* it, a name with seconds and a name with an hour and no minute, the
\* first was left out and the other two were collected, the last one with
\* the time 00:00:00.
C26_Witness ==
    /\ JustCollected
    /\ listing[location] = {EntryInvalidThenValid, EntryWithSeconds, EntryHourOnly}
    /\ ~IsCollected(EntryInvalidThenValid)
    /\ Backup(PathJoin(location, EntryWithSeconds), <<2018, 12, 31, 16, 45, 30>>)
           \in Range(sorted_backups)
    /\ Backup(PathJoin(location, EntryHourOnly), <<2018, 12, 31, 0, 0, 0>>)
           \in Range(sorted_backups)

\* ------------------------------------------------------------------------
\* C27
\* ------------------------------------------------------------------------

\* The command the step added to rotation_commands.
AddedCommand == rotation_commands'[Len(rotation_commands')].command

\* C27: the argument list of every removal command that is prepared is the
\* removal_command of the program followed by the pathname of the backup
\* that is deleted, as its last argument and nothing else, and preparing
\* it leaves the removal_command property, and with it the list
\* DEFAULT_REMOVAL_COMMAND of a program that was given no command,
\* as it was.
C27_CommandIsCopy ==
    [][Len(rotation_commands') = Len(rotation_commands) + 1 =>
          /\ AddedCommand = removal_command \o <<sorted_backups[position].pathname>>
          /\ Len(AddedCommand) = Len(removal_command) + 1
          /\ removal_command' = removal_command
          /\ given.removal_command = DEFAULT_REMOVAL_COMMAND /\ config = <<>> =>
                removal_command' = DEFAULT_REMOVAL_COMMAND]_vars

\* Two backups of one location have been removed with the default command,
\* each by rm -fR and its pathname, and the property still is rm -fR.
C27_Witness ==
    /\ Len(rotation_commands) = 2
    /\ started = rotation_commands
    /\ removal_command = DEFAULT_REMOVAL_COMMAND
    /\ \A i \in 1..2 :
          /\ SubSeq(started[i].command, 1, 2) = DEFAULT_REMOVAL_COMMAND
          /\ Len(started[i].command) = 3
          /\ Target(started[i]) = sorted_backups[i].pathname

\* ------------------------------------------------------------------------
\* C28
\* ------------------------------------------------------------------------

\* The scheme names a frequency, those in Among only, and every retention
\* period in it is 'always' or a count of at least 1.
CountsAtLeastOne(Among) ==
    /\ DOMAIN rotation_scheme # {}
    /\ DOMAIN rotation_scheme \subseteq Among
    /\ \A frequency \in DOMAIN rotation_scheme :
          \/ rotation_scheme[frequency] = Always
          \/ \E n \in 1..(MaxCount + 1) : rotation_scheme[frequency] = Count(n)

NeverDeletesAll(Among) ==
    (CriteriaFound /\ sorted_backups # <<>> /\ CountsAtLeastOne(Among)) =>
        \E b \in Range(sorted_backups) : InPreservationMap(b)

\* C28: when backups were collected and the scheme is not empty and holds
\* no count below 1, at least one backup is preserved, with and without
\* strict and prefer_recent.
C28_NeverDeletesAll == NeverDeletesAll(SUPPORTED_FREQUENCIES)

\* The same for the schemes without the weekly frequency.
C28_NeverDeletesAllNotWeekly == NeverDeletesAll(SUPPORTED_FREQUENCIES \ {"weekly"})

\* ------------------------------------------------------------------------
\* C29
\* ------------------------------------------------------------------------

MostRecentPreserved(Among) ==
    (CriteriaFound /\ sorted_backups # <<>> /\ prefer_recent /\ CountsAtLeastOne(Among)) =>
        InPreservationMap(sorted_backups[Len(sorted_backups)])

\* C29: with prefer_recent, a scheme that is not empty and holds no count
\* below 1 preserves the most recent backup that was collected, with and
\* without strict.
C29_MostRecentPreserved == MostRecentPreserved(SUPPORTED_FREQUENCIES)

\* The same for the schemes without the weekly frequency.
C29_MostRecentPreservedNotWeekly == MostRecentPreserved(SUPPORTED_FREQUENCIES \ {"weekly"})

\* ------------------------------------------------------------------------
\* C30
\* ------------------------------------------------------------------------

\* group_backups() has returned and apply_rotation_scheme() has not begun.
JustGrouped == pc = "apply_rotation_scheme"

\* The time slot of a timestamp in a frequency: its minute, hour, day,
\* month or year, and for a week the ordinal of the Monday it begins with.
TimeSlot(frequency, ts) ==
    LET today == Ordinal(ts[1], ts[2], ts[3])
    IN  CASE frequency = "minutely" -> <<ts[1], ts[2], ts[3], ts[4], ts[5]>>
          [] frequency = "hourly" -> <<ts[1], ts[2], ts[3], ts[4]>>
          [] frequency = "daily" -> <<ts[1], ts[2], ts[3]>>
          [] frequency = "weekly" -> <<today - ((today + 6) % 7)>>
          [] frequency = "monthly" -> <<ts[1], ts[2]>>
          [] frequency = "yearly" -> <<ts[1]>>

\* Timestamp a is less than one bucket width of the frequency before b.
WithinWidth(frequency, a, b) ==
    TupleLess(MinimumDate(b, frequency, 1), <<Minutes(a), a[6]>>)

Grouping(Among) ==
    JustGrouped =>
        \A frequency \in Among :
           LET buckets == backups_by_frequency[frequency]
           IN  /\ \A b \in Range(sorted_backups) :
                     Cardinality({period \in DOMAIN buckets :
                                     b \in Range(buckets[period])}) = 1
               /\ \A period \in DOMAIN buckets :
                     \A a, b \in Range(buckets[period]) :
                        /\ TimeSlot(frequency, a.timestamp) = TimeSlot(frequency, b.timestamp)
                        /\ TimestampLess(a.timestamp, b.timestamp) =>
                              WithinWidth(frequency, a.timestamp, b.timestamp)
               /\ \A earlier, later \in DOMAIN buckets :
                     TupleLess(earlier, later) =>
                        \A a \in Range(buckets[earlier]), b \in Range(buckets[later]) :
                           TimestampLess(a.timestamp, b.timestamp)

\* C30: after group_backups every backup is in exactly one bucket of each
\* of the six frequencies, two backups of one bucket lie in the same time
\* slot (minute, hour, day, ISO week, month, year) and so less than one
\* bucket width apart, and the buckets in the ascending order of their
\* keys are in the chronological order of their members.
C30_Grouping == Grouping(SUPPORTED_FREQUENCIES)

\* The same for the five frequencies other than weekly.
C30_GroupingNotWeekly == Grouping(SUPPORTED_FREQUENCIES \ {"weekly"})

====
